--------------------------- MODULE ArchiveExtraction ---------------------------
(***************************************************************************)
(* The extraction of a backup archive into an empty directory, one tar     *)
(* header at a time, under budgets.  The archive is any sequence of        *)
(* members, sizes and padding; a bad one is refused half-way, with what    *)
(* has been written until then.                                            *)
(*                                                                         *)
(* Data abstracted away.  A path is a sequence of names that _target has   *)
(* accepted; a header is one unit of expanded bytes.  The deadline, the    *)
(* compression ratio, and the syntax of headers and extension records      *)
(* appear as a refusal at any time.                                        *)
(***************************************************************************)
EXTENDS Integers, Sequences, FiniteSets, Functions

CONSTANTS
  Paths,          \* archive targets, as sequences of names
  MaxMember,      \* bound on the size that a header states
  FileLimit,      \* file_bytes
  ExpandedLimit,  \* expanded_bytes
  HeaderLimit,    \* headers
  ObjectLimit,    \* objects
  ExtensionLimit, \* extensions_bytes
  ExtensionChain, \* extension_depth
  CopyChunk       \* CHUNK

ASSUME ExtractionAssumption ==
  /\ \A p \in Paths : p \in Seq(STRING) /\ p # <<>>
  /\ MaxMember \in Nat /\ CopyChunk \in Nat \ {0}
  /\ {FileLimit, ExpandedLimit, HeaderLimit, ObjectLimit, ExtensionLimit, ExtensionChain} \subseteq Nat \ {0}

VARIABLES
  extraction, \* the stage, and the member in hand: path, stated size, bytes copied
  budget,     \* RestoreBudget: expanded, headers, extension bytes and chain
  objects,    \* targets claimed so far, with TRUE for a directory
  seen,       \* targets that had a header of their own
  directories, files \* what is on the disk; files with their bytes

extractionVars == <<extraction, budget, objects, seen, directories, files>>

Ancestors(p) == {SubSeq(p, 1, i) : i \in 1..(Len(p) - 1)}
Targets      == Paths \cup UNION {Ancestors(p) : p \in Paths}

ExtractionTypeOK ==
  /\ extraction \in [at : {"header", "copying", "padding", "done", "refused"}, path : Targets \cup {<<>>},
                     size : 0..MaxMember, copied : 0..MaxMember]
  /\ budget \in [expanded : 0..ExpandedLimit, headers : 0..HeaderLimit,
                 extensions : 0..ExtensionLimit, chain : 0..ExtensionChain]
  /\ DOMAIN objects \subseteq Targets /\ \A p \in DOMAIN objects : objects[p] \in BOOLEAN
  /\ seen \subseteq Paths /\ directories \subseteq Targets
  /\ DOMAIN files \subseteq Paths /\ \A p \in DOMAIN files : files[p] \in 0..MaxMember

Between == [at |-> "header", path |-> <<>>, size |-> 0, copied |-> 0]

ExtractionInit ==
  /\ extraction = Between
  /\ budget = [expanded |-> 0, headers |-> 0, extensions |-> 0, chain |-> 0]
  /\ objects = [p \in {} |-> TRUE]
  /\ seen = {} /\ directories = {}
  /\ files = [p \in {} |-> 0]

-----------------------------------------------------------------------------
Affords(bytes) == bytes <= ExpandedLimit - budget.expanded

\* GuardedTarInfo._proc_member counts every header, extensions too.
HeaderCounted == budget.headers < HeaderLimit /\ Affords(1)

AtHeader == extraction.at = "header" /\ HeaderCounted

\* An extension header precedes another one or a member; its body is read at once.
ExtensionRead(size) ==
  /\ AtHeader /\ Affords(1 + size)
  /\ size <= FileLimit /\ size <= ExtensionLimit - budget.extensions
  /\ budget.chain < ExtensionChain
  /\ budget' = [expanded |-> budget.expanded + 1 + size, headers |-> budget.headers + 1,
                extensions |-> budget.extensions + size, chain |-> budget.chain + 1]
  /\ UNCHANGED <<extraction, objects, seen, directories, files>>

MemberHeader == budget' = [budget EXCEPT !.expanded = @ + 1, !.headers = @ + 1, !.chain = 0]

(* Defect: the directories above a target are not claimed. *)
ClaimsTargetOnly(p, directory) == [q \in {p} |-> directory]

\* The member's target and the directories above it, as the archive has them.
Claims(p, directory) == [q \in Ancestors(p) \cup {p} |-> IF q = p THEN directory ELSE TRUE]

Consistent(claims) == \A q \in DOMAIN claims \cap DOMAIN objects : claims[q] = objects[q]

Claimed(claims) == [q \in DOMAIN objects \cup DOMAIN claims |-> IF q \in DOMAIN claims THEN claims[q] ELSE objects[q]]

TargetAccepted(p, directory) ==
  /\ p \notin seen
  /\ Consistent(Claims(p, directory))
  /\ Cardinality(DOMAIN Claimed(Claims(p, directory))) <= ObjectLimit
  /\ seen' = seen \cup {p}
  /\ objects' = Claimed(Claims(p, directory))

DirectoryMember(p) ==
  /\ AtHeader /\ Head(p) = "images"
  /\ TargetAccepted(p, TRUE)
  /\ MemberHeader
  /\ directories' = directories \cup Ancestors(p) \cup {p}
  /\ UNCHANGED <<extraction, files>>

FileMember(p, size) ==
  /\ AtHeader /\ size <= FileLimit /\ p # <<"images">>
  /\ TargetAccepted(p, FALSE)
  /\ MemberHeader
  /\ directories' = directories \cup Ancestors(p)
  /\ files' = [q \in DOMAIN files \cup {p} |-> IF q = p THEN 0 ELSE files[q]]
  /\ extraction' = [at |-> "copying", path |-> p, size |-> size, copied |-> 0]

Remaining == extraction.size - extraction.copied

\* copy_bounded; the stream may end before the stated size.
BytesCopied(bytes) ==
  /\ extraction.at = "copying"
  /\ bytes \in 1..CopyChunk /\ bytes <= Remaining /\ Affords(bytes)
  /\ extraction' = [extraction EXCEPT !.copied = @ + bytes]
  /\ files' = [files EXCEPT ![extraction.path] = @ + bytes]
  /\ budget' = [budget EXCEPT !.expanded = @ + bytes]
  /\ UNCHANGED <<objects, seen, directories>>

FileCopied ==
  /\ extraction.at = "copying" /\ Remaining = 0
  /\ extraction' = Between
  /\ UNCHANGED <<budget, objects, seen, directories, files>>

\* The end marker is followed by zeros, which count as well.
EndMarker ==
  /\ extraction.at = "header" /\ budget.chain = 0 /\ Affords(1)
  /\ extraction' = [Between EXCEPT !.at = "padding"]
  /\ budget' = [budget EXCEPT !.expanded = @ + 1]
  /\ UNCHANGED <<objects, seen, directories, files>>

PaddingRead(bytes) ==
  /\ extraction.at = "padding" /\ Affords(bytes)
  /\ budget' = [budget EXCEPT !.expanded = @ + bytes]
  /\ UNCHANGED <<extraction, objects, seen, directories, files>>

\* The end of the stream also ends an archive that has no end marker.
StreamEnds ==
  /\ extraction.at = "padding" \/ (extraction.at = "header" /\ budget.chain = 0 /\ budget.headers > 0)
  /\ extraction' = [Between EXCEPT !.at = "done"]
  /\ UNCHANGED <<budget, objects, seen, directories, files>>

\* Over a budget, truncated, unreadable, conflicting, late, or trailing data.
ExtractionRefused ==
  /\ extraction.at \in {"header", "copying", "padding"}
  /\ extraction' = [extraction EXCEPT !.at = "refused"]
  /\ UNCHANGED <<budget, objects, seen, directories, files>>

-----------------------------------------------------------------------------
ExtractionNext ==
  \/ \E size \in 0..MaxMember : ExtensionRead(size) \/ \E p \in Paths : FileMember(p, size)
  \/ \E p \in Paths : DirectoryMember(p)
  \/ \E bytes \in 1..CopyChunk : BytesCopied(bytes) \/ PaddingRead(bytes)
  \/ FileCopied \/ EndMarker \/ StreamEnds \/ ExtractionRefused

ExtractionSpec == ExtractionInit /\ [][ExtractionNext]_extractionVars

-----------------------------------------------------------------------------
OnDisk == directories \cup DOMAIN files

(* Whatever the archive holds and however it is refused, what it left on   *)
(* the disk is a tree within the budgets: no file is also a directory or   *)
(* lies below a file, and objects and bytes stay within their limits       *)
(* (extract_archive, "finite CPU/memory/disk budgets").                    *)
DiskIsBoundedTree ==
  /\ directories \cap DOMAIN files = {}
  /\ \A p \in OnDisk : Ancestors(p) \subseteq directories
  /\ Cardinality(OnDisk) <= ObjectLimit
  /\ SumFunction(files) <= ExpandedLimit
===============================================================================
