--------------------------- MODULE ArtifactStore ---------------------------
(***************************************************************************)
(* One artifact in the filesystem store: the file named by the hash of its *)
(* content, which any request that produces this content stores, and the   *)
(* sweep of expired files removes.  Every writer goes through the same     *)
(* temporary name.                                                         *)
(*                                                                         *)
(* A name leads to a file (an inode): truncated when it is opened by its   *)
(* name, written through the descriptor whatever name leads to it since.   *)
(* The content is written in two parts; a file is whole when it has both.  *)
(***************************************************************************)
EXTENDS Integers, FiniteSets

CONSTANTS
    Writers,        \* requests that store the content
    Sweepers,       \* requests that sweep expired files
    Inodes,         \* bound: files ever made
    StoreModes,     \* {"alone"}: stores and sweeps one after the other
    StoreMayCrash,  \* processes may die
    NoFile

ASSUME StoreAssumption ==
    /\ NoFile \notin Inodes /\ IsFiniteSet(Inodes)
    /\ StoreModes \subseteq {"alone", "overlapping"}
    /\ StoreMayCrash \in BOOLEAN

VARIABLES
    artifact,       \* the file of the artifact's name
    tmp,            \* the file of its temporary name
    written,        \* the parts that each file made so far has
    expired,        \* files whose last write is older than the maximum age
    storing,        \* what each writer holds
    sweeping,       \* what each sweeper has found expired
    crashed,        \* some process has died
    storeMode

storeVars == <<artifact, tmp, written, expired, storing, sweeping, crashed, storeMode>>

Whole == {1, 2}
Made  == DOMAIN written

StoreAtRest == /\ \A w \in Writers : storing[w].pc = "idle"
               /\ \A s \in Sweepers : ~sweeping[s]
StoreTurn   == storeMode = "alone" => StoreAtRest

Storing(w, m) == storing' = [storing EXCEPT ![w] = m]
NotSwept      == UNCHANGED <<sweeping, crashed, storeMode>>

-----------------------------------------------------------------------------
(* store *)

\* Nothing is written, and no age refreshed, when the file exists
BeginStore(w) ==
    /\ storing[w].pc = "idle" /\ StoreTurn /\ artifact = NoFile
    /\ Storing(w, [pc |-> "open"])
    /\ NotSwept /\ UNCHANGED <<artifact, tmp, written, expired>>

\* Mutant: the content is written under the artifact's own name
OpenArtifact(w) ==
    /\ storing[w].pc = "open"
    /\ \E i \in Inodes \ Made :
          /\ artifact' = i /\ UNCHANGED tmp
          /\ written' = [j \in Made \cup {i} |-> IF j = i THEN {} ELSE written[j]]
          /\ Storing(w, [pc |-> "write", fd |-> i])
    /\ NotSwept /\ UNCHANGED expired

\* write_bytes opens the temporary name, which makes a file or empties the one there
OpenTmp(w) ==
    /\ storing[w].pc = "open"
    /\ \E i \in IF tmp = NoFile THEN Inodes \ Made ELSE {tmp} :
          /\ tmp' = i
          /\ written' = [j \in Made \cup {i} |-> IF j = i THEN {} ELSE written[j]]
          /\ expired' = expired \ {i}
          /\ Storing(w, [pc |-> "write", fd |-> i])
    /\ NotSwept /\ UNCHANGED artifact

\* Mutant: the name is replaced while a part is still to be written
PartBeforeReplace(m) == m.pc = "write"

\* The last part before the name is replaced
LastPart(m) == m.pc = "writeRest"

WritePart(w) ==
    /\ storing[w].pc \in {"write", "writeRest"}
    /\ LET m == storing[w]
           part == IF m.pc = "write" THEN 1 ELSE 2
       IN  /\ written' = [written EXCEPT ![m.fd] = @ \cup {part}]
           /\ expired' = expired \ {m.fd}
           /\ Storing(w, [m EXCEPT !.pc = IF LastPart(m) THEN "replace" ELSE "writeRest"])
    /\ NotSwept /\ UNCHANGED <<artifact, tmp>>

\* os.replace fails when another writer has taken the temporary name away
Replace(w) ==
    /\ storing[w].pc = "replace"
    /\ IF tmp = NoFile THEN UNCHANGED <<artifact, tmp>> ELSE artifact' = tmp /\ tmp' = NoFile
    /\ Storing(w, [pc |-> "idle"])
    /\ NotSwept /\ UNCHANGED <<written, expired>>

WriterDies(w) ==
    /\ StoreMayCrash /\ storing[w].pc # "idle"
    /\ crashed' = TRUE /\ Storing(w, [pc |-> "idle"])
    /\ UNCHANGED <<artifact, tmp, written, expired, sweeping, storeMode>>

-----------------------------------------------------------------------------
(* sweep_expired, which leaves temporary names alone *)

Expire(i) ==
    /\ i \in Made \ expired
    /\ expired' = expired \cup {i}
    /\ UNCHANGED <<artifact, tmp, written, storing>> /\ NotSwept

FindExpired(s) ==
    /\ ~sweeping[s] /\ StoreTurn
    /\ artifact # NoFile /\ artifact \in expired
    /\ sweeping' = [sweeping EXCEPT ![s] = TRUE]
    /\ UNCHANGED <<artifact, tmp, written, expired, storing, crashed, storeMode>>

\* unlink(missing_ok=True): by the name, whatever it leads to by now
Unlink(s) ==
    /\ sweeping[s]
    /\ artifact' = NoFile
    /\ sweeping' = [sweeping EXCEPT ![s] = FALSE]
    /\ UNCHANGED <<tmp, written, expired, storing, crashed, storeMode>>

-----------------------------------------------------------------------------
StoreInit ==
    /\ artifact = NoFile /\ tmp = NoFile
    /\ written = [i \in {} |-> {}] /\ expired = {}
    /\ storing = [w \in Writers |-> [pc |-> "idle"]]
    /\ sweeping = [s \in Sweepers |-> FALSE]
    /\ crashed = FALSE
    /\ storeMode \in StoreModes

StoreNext ==
    \/ \E w \in Writers : \/ BeginStore(w) \/ OpenTmp(w) \/ WritePart(w)
                          \/ Replace(w) \/ WriterDies(w)
    \/ \E i \in Inodes : Expire(i)
    \/ \E s \in Sweepers : FindExpired(s) \/ Unlink(s)

StoreSpec == StoreInit /\ [][StoreNext]_storeVars

-----------------------------------------------------------------------------
(* Properties *)

\* While stores and sweeps come one after the other, a process that dies in the
\* middle of one included: a download finds the artifact whole, or not at all.
ArtifactIsWhole ==
    storeMode = "alone" => artifact = NoFile \/ written[artifact] = Whole

\* However stores and sweeps overlap, as long as no process dies: when no store
\* is in flight any more, the artifact is whole, or not there.
ArtifactEndsWhole ==
    (\A w \in Writers : storing[w].pc = "idle") /\ ~crashed =>
        artifact = NoFile \/ written[artifact] = Whole

=============================================================================
