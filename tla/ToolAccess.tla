----------------------------- MODULE ToolAccess -----------------------------
(***************************************************************************)
(* Resource accesses a tool call declares, and when two declarations       *)
(* conflict (loop/tool-access.ts).                                         *)
(*                                                                         *)
(* A path is a sequence of segments.  Separators and repeated slashes are  *)
(* abstracted away by that representation; case is not, because            *)
(* normalizePath folds it: Fold maps every segment to its lower-case form. *)
(***************************************************************************)
EXTENDS Integers, Sequences, SequencesExt

CONSTANTS
    Fold,     \* [raw segment -> lower-case segment]
    NoPath,   \* the access is not narrowed to a path
    Files     \* paths of the backend's files and directories

ASSUME FilesAssumption ==
    Files \subseteq Seq(DOMAIN Fold) /\ Files # {} /\ NoPath \notin Files

Operations == {"read", "search", "write", "readwrite"}

AllAccess == [kind |-> "all"]

FileAccess(op, path, recursive) ==
    [kind |-> "file", operation |-> op, path |-> path, recursive |-> recursive]

NormalizePath(path) == [i \in DOMAIN path |-> Fold[path[i]]]

Writes(op) == op \in {"write", "readwrite"}

OperationsConflict(l, r) == Writes(l) \/ Writes(r)

(* Mutant: only the left declaration's recursive flag is honoured. *)
OverlapOneSided(l, r) ==
    \/ l.path = NoPath
    \/ r.path = NoPath
    \/ LET lp == NormalizePath(l.path)
           rp == NormalizePath(r.path)
       IN  lp = rp \/ (l.recursive /\ IsStrictPrefix(lp, rp))

FileAccessesOverlap(l, r) ==
    \/ l.path = NoPath
    \/ r.path = NoPath
    \/ LET lp == NormalizePath(l.path)
           rp == NormalizePath(r.path)
       IN  \/ lp = rp
           \/ l.recursive /\ IsStrictPrefix(lp, rp)
           \/ r.recursive /\ IsStrictPrefix(rp, lp)

ResourceAccessesConflict(l, r) ==
    \/ l.kind = "all"
    \/ r.kind = "all"
    \/ /\ OperationsConflict(l.operation, r.operation)
       /\ FileAccessesOverlap(l, r)

(* Two declarations (sets of accesses) conflict when some pair does. *)
Conflict(left, right) ==
    \E l \in left, r \in right : ResourceAccessesConflict(l, r)

-----------------------------------------------------------------------------
(* What the declarations mean, said without the code's prefix test.        *)

Accesses == {AllAccess} \cup
            { FileAccess(op, path, recursive) : op \in Operations, path \in Files \cup {NoPath},
                                                recursive \in BOOLEAN }

(* Names are compared as a backend that ignores case compares them. *)
SameFile(f, g) == Len(f) = Len(g) /\ \A i \in DOMAIN f : Fold[f[i]] = Fold[g[i]]

(* Any file when the access names no path; else the file itself, and below *)
(* a recursive path every file one of whose proper ancestors is that path. *)
Touches(a, f) ==
    \/ a.path = NoPath
    \/ SameFile(f, a.path)
    \/ a.recursive /\ \E n \in 0..(Len(f) - 1) : SameFile(SubSeq(f, 1, n), a.path)

Interferes(a, b) ==
    \/ a = AllAccess \/ b = AllAccess
    \/ /\ {a.operation, b.operation} \cap {"write", "readwrite"} # {}
       /\ \E f \in Files : Touches(a, f) /\ Touches(b, f)

=============================================================================
