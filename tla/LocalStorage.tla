---------------------------- MODULE LocalStorage ----------------------------
(***************************************************************************)
(* Dataset and artifact files under the worker's storage root              *)
(* (workers/python/storage.py and artifacts.py).  Every file is staged     *)
(* under a private name, moved to its final name and only then described;  *)
(* an artifact is also recorded in PostgreSQL, and removed again when that *)
(* fails.  Datasets are encrypted when the process has a key: small ones   *)
(* as one token, streamed batches by a second staging file of encrypted    *)
(* chunks.                                                                 *)
(*                                                                         *)
(* Calls raise, processes die between any two steps and may come back with *)
(* another key, and the machine may lose the tail of a file that was never *)
(* synced.  The content of a file is abstracted to how many of its NBlocks *)
(* blocks (batches, chunks) are there, its form and its key.               *)
(***************************************************************************)
EXTENDS Naturals, FiniteSets

CONSTANTS
    Workers, Ids,
    Keys, NoKey,     \* encryption keys a process may be configured with
    NBlocks,
    MaxWriteFaults,  \* bound: calls that raise
    MaxCrashes,      \* bound: processes that die
    MaxPowerLosses,  \* bound: files that lose their tail
    MaxLostAnswers   \* bound: inserts that commit without an answer

Kinds == {"table", "batches", "document", "artifact"}
Ciphers == Keys \cup {NoKey}
Absent == [form |-> "absent", size |-> 0, key |-> NoKey]
Contents == [form : {"plain", "token", "chunks"}, size : 0..NBlocks, key : Ciphers] \cup {Absent}
Idle == [pc |-> "idle", failed |-> FALSE]

ASSUME StorageAssumption ==
    /\ IsFiniteSet(Workers) /\ IsFiniteSet(Ids) /\ IsFiniteSet(Keys)
    /\ NoKey \notin Keys /\ NBlocks \in Nat \ {0}
    /\ {MaxWriteFaults, MaxCrashes, MaxPowerLosses, MaxLostAnswers} \subseteq Nat

VARIABLES
    cipher,     \* worker -> the key it is configured with
    op,         \* worker -> [pc, failed, id, kind]
    staged,     \* id -> the staging file
    encrypted,  \* id -> the encrypted staging file
    final,      \* id -> the file at its location
    described,  \* id -> [kind, encrypted, key] of the descriptor, or {}
    rows,       \* artifacts recorded in PostgreSQL
    used,       \* identifiers drawn so far
    orphaned,   \* ids whose process died while it worked on them, or could not
                \* remove a file of it, or got no answer to its insert
    cut,        \* ids whose file lost its tail
    writeFaults, crashes, lostAnswers

files == <<staged, encrypted, final>>
bounds == <<writeFaults, crashes, lostAnswers>>
storageVars == <<cipher, op, files, described, rows, used, orphaned, cut, bounds>>

Busy == {"write", "encrypt", "publish", "unlink", "record", "remove"}
Operations == [pc : Busy, failed : BOOLEAN, id : Ids, kind : Kinds]

StorageTypeOK ==
    /\ cipher \in [Workers -> Ciphers] /\ op \in [Workers -> Operations \cup {Idle}]
    /\ {staged, encrypted, final} \subseteq [Ids -> Contents]
    /\ \A id \in Ids : described[id] \subseteq [kind : Kinds, encrypted : BOOLEAN, key : Ciphers]
    /\ rows \subseteq used /\ used \subseteq Ids /\ orphaned \subseteq used /\ cut \subseteq used
    /\ writeFaults \in 0..MaxWriteFaults /\ crashes \in 0..MaxCrashes /\ lostAnswers \in 0..MaxLostAnswers

StorageInit ==
    /\ cipher \in [Workers -> Ciphers] /\ op = [w \in Workers |-> Idle]
    /\ staged = [id \in Ids |-> Absent] /\ encrypted = staged /\ final = staged
    /\ described = [id \in Ids |-> {}] /\ rows = {} /\ used = {} /\ orphaned = {} /\ cut = {}
    /\ writeFaults = 0 /\ crashes = 0 /\ lostAnswers = 0

Raise == writeFaults < MaxWriteFaults /\ writeFaults' = writeFaults + 1 /\ UNCHANGED <<crashes, lostAnswers>>
At(w, pc) == op[w].pc = pc
Held == {op[w].id : w \in {v \in Workers : op[v].pc # "idle"}}
Goto(w, pc) == op' = [op EXCEPT ![w].pc = pc]

-----------------------------------------------------------------------------
(* Writing *)

\* Batches are always staged in the clear; a table or a document is encrypted
\* in memory; an artifact never is.
StagedForm(w, kind) == IF kind \in {"table", "document"} /\ cipher[w] # NoKey THEN "token" ELSE "plain"
Streams(w) == op[w].kind = "batches" /\ cipher[w] # NoKey

Begin(w, id, kind) ==
    /\ At(w, "idle") /\ id \notin used
    /\ op' = [op EXCEPT ![w] = [pc |-> "write", failed |-> FALSE, id |-> id, kind |-> kind]]
    /\ staged' = [staged EXCEPT ![id] = [form |-> StagedForm(w, kind), size |-> 0, key |-> cipher[w]]]
    /\ used' = used \cup {id}
    /\ UNCHANGED <<cipher, encrypted, final, described, rows, orphaned, cut, bounds>>

BlocksLeft(id) == staged[id].size < NBlocks
WriteBlock(w) ==
    /\ At(w, "write") /\ BlocksLeft(op[w].id)
    /\ staged' = [staged EXCEPT ![op[w].id].size = @ + 1]
    /\ UNCHANGED <<cipher, op, encrypted, final, described, rows, used, orphaned, cut, bounds>>

EndWrite(w) ==
    /\ At(w, "write") /\ ~ BlocksLeft(op[w].id)
    /\ Goto(w, IF Streams(w) THEN "encrypt" ELSE "publish")
    /\ encrypted' = IF Streams(w)
                    THEN [encrypted EXCEPT ![op[w].id] = [form |-> "chunks", size |-> 0, key |-> cipher[w]]]
                    ELSE encrypted
    /\ UNCHANGED <<cipher, staged, final, described, rows, used, orphaned, cut, bounds>>

AllEncrypted(id) == encrypted[id].size = NBlocks
EncryptFile(w) ==
    LET id == op[w].id IN
    /\ At(w, "encrypt")
    /\ \/ encrypted[id].size < NBlocks /\ encrypted' = [encrypted EXCEPT ![id].size = @ + 1] /\ UNCHANGED op
       \/ AllEncrypted(id) /\ Goto(w, "publish") /\ UNCHANGED encrypted
    /\ UNCHANGED <<cipher, staged, final, described, rows, used, orphaned, cut, bounds>>

Publish(w) ==
    LET id == op[w].id IN
    /\ At(w, "publish") /\ Goto(w, "unlink")
    /\ IF Streams(w)
       THEN /\ final' = [final EXCEPT ![id] = encrypted[id]]
            /\ encrypted' = [encrypted EXCEPT ![id] = Absent] /\ UNCHANGED staged
       ELSE /\ final' = [final EXCEPT ![id] = staged[id]]
            /\ staged' = [staged EXCEPT ![id] = Absent] /\ UNCHANGED encrypted
    /\ UNCHANGED <<cipher, described, rows, used, orphaned, cut, bounds>>

FailWrite(w) ==
    /\ op[w].pc \in {"write", "encrypt", "publish"}
    /\ op' = [op EXCEPT ![w].pc = "unlink", ![w].failed = TRUE] /\ Raise
    /\ UNCHANGED <<cipher, files, described, rows, used, orphaned, cut>>

Describe(w) == [kind |-> op[w].kind, encrypted |-> op[w].kind # "artifact" /\ cipher[w] # NoKey, key |-> cipher[w]]

\* The finally clause, and the descriptor when nothing was raised.
\* Faulty: the clear staging file of an encrypted dataset is left behind.
UnlinkRenamed(id) == staged
UnlinkStaged(id) == [staged EXCEPT ![id] = Absent]
Unlink(w) ==
    LET id == op[w].id IN
    /\ At(w, "unlink")
    /\ staged' = UnlinkStaged(id) /\ encrypted' = [encrypted EXCEPT ![id] = Absent]
    /\ IF op[w].failed \/ op[w].kind # "artifact" THEN op' = [op EXCEPT ![w] = Idle] ELSE Goto(w, "record")
    /\ described' = IF op[w].failed THEN described ELSE [described EXCEPT ![id] = {Describe(w)}]
    /\ UNCHANGED <<cipher, final, rows, used, orphaned, cut, bounds>>

\* An unlink of the finally clause raises, the first or the second: what it
\* did not remove stays, and there is no descriptor, published or not.
UnlinkFails(w) ==
    LET id == op[w].id IN
    /\ At(w, "unlink") /\ Raise /\ op' = [op EXCEPT ![w] = Idle]
    /\ staged' \in {staged, UnlinkStaged(id)}
    /\ orphaned' = orphaned \cup {id}
    /\ UNCHANGED <<cipher, encrypted, final, described, rows, used, cut>>

-----------------------------------------------------------------------------
(* Recording an artifact *)

Record(w) ==
    /\ At(w, "record") /\ rows' = rows \cup {op[w].id}
    /\ op' = [op EXCEPT ![w] = Idle]
    /\ UNCHANGED <<cipher, files, described, used, orphaned, cut, bounds>>

RemoveFile(id) == [final EXCEPT ![id] = Absent]

RecordFails(w) ==
    /\ At(w, "record") /\ Goto(w, "remove")
    /\ \/ Raise /\ UNCHANGED <<rows, orphaned>>
       \/ /\ lostAnswers < MaxLostAnswers /\ lostAnswers' = lostAnswers + 1
          /\ rows' = rows \cup {op[w].id} /\ orphaned' = orphaned \cup {op[w].id}
          /\ UNCHANGED <<writeFaults, crashes>>
    /\ UNCHANGED <<cipher, files, described, used, cut>>

DeleteUnrecorded(w) ==
    /\ At(w, "remove") /\ op' = [op EXCEPT ![w] = Idle]
    /\ described' = [described EXCEPT ![op[w].id] = {}]
    /\ \/ final' = RemoveFile(op[w].id) /\ UNCHANGED <<orphaned, bounds>>
       \/ Raise /\ orphaned' = orphaned \cup {op[w].id} /\ UNCHANGED final
    /\ UNCHANGED <<cipher, staged, encrypted, rows, used, cut>>

-----------------------------------------------------------------------------
(* Deletion and writeFaults *)

\* delete and delete_expired: a file that is gone already is no error.
DeleteDataset(id) ==
    /\ described[id] # {} /\ id \notin rows \cup Held
    /\ final' = [final EXCEPT ![id] = Absent] /\ described' = [described EXCEPT ![id] = {}]
    /\ UNCHANGED <<cipher, op, staged, encrypted, rows, used, orphaned, cut, bounds>>

Crash(w) ==
    /\ crashes < MaxCrashes /\ crashes' = crashes + 1
    /\ orphaned' = IF op[w] = Idle THEN orphaned ELSE orphaned \cup {op[w].id}
    /\ op' = [op EXCEPT ![w] = Idle] /\ \E key \in Ciphers : cipher' = [cipher EXCEPT ![w] = key]
    /\ UNCHANGED <<files, described, rows, used, cut, writeFaults, lostAnswers>>

\* Nothing is synced, so a rename may outlive the data it names.
LoseTail(id) ==
    /\ final[id].size > 0 /\ Cardinality(cut) < MaxPowerLosses
    /\ \E size \in 0..final[id].size - 1 : final' = [final EXCEPT ![id].size = size]
    /\ cut' = cut \cup {id}
    /\ UNCHANGED <<cipher, op, staged, encrypted, described, rows, used, orphaned, bounds>>

Step(w) ==
    \/ WriteBlock(w) \/ EndWrite(w) \/ EncryptFile(w) \/ Publish(w) \/ FailWrite(w)
    \/ Unlink(w) \/ UnlinkFails(w) \/ Record(w) \/ RecordFails(w) \/ DeleteUnrecorded(w)
StorageNext ==
    \/ \E w \in Workers : Step(w) \/ Crash(w) \/ \E id \in Ids, kind \in Kinds : Begin(w, id, kind)
    \/ \E id \in Ids : DeleteDataset(id) \/ LoseTail(id)

StorageSpec == StorageInit /\ [][StorageNext]_storageVars

-----------------------------------------------------------------------------
(* Reading *)

\* The blocks a key recovers: all or none of a token, every whole chunk of a
\* chunked file, which carries no count of its chunks.
DecryptPayload(content, key) ==
    CASE content.key # key -> 0
      [] content.key = key /\ content.form = "token" -> IF content.size = NBlocks THEN NBlocks ELSE 0
      [] content.key = key /\ content.form = "chunks" -> content.size
      [] OTHER -> 0

\* The blocks a read obtains, or why it does not.
ReadPayload(id, d, key) ==
    IF final[id] = Absent THEN "missing"
    ELSE IF d.encrypted /\ key = NoKey THEN "needs key"
    ELSE IF (IF d.encrypted THEN DecryptPayload(final[id], key) ELSE final[id].size) = NBlocks THEN "whole" ELSE "part"

\* Parquet and JSON need their last block: a part of the data does not parse.
ReadTabular(id, d, key) ==
    LET payload == ReadPayload(id, d, key)
    IN  IF payload = "whole" THEN "data" ELSE IF payload = "part" THEN "invalid" ELSE payload

-----------------------------------------------------------------------------
(* Properties *)

\* Whatever a descriptor names can be read back whole with the key it was
\* written with, whichever way it was written, while the process that wrote it
\* may since have died or changed its key.
DescribedIsReadable ==
    \A id \in Ids \ (cut \cup rows) : \A d \in described[id] : ReadTabular(id, d, d.key) = "data"

\* Once a write has ended, with an error or not, nothing of it is left in a
\* staging file that could be removed: in particular no clear copy of an encrypted dataset.
NothingLeftStaged ==
    \A id \in used \ (orphaned \cup Held) : staged[id] = Absent /\ encrypted[id] = Absent

\* A recorded artifact has its whole file, unless its insert committed without
\* an answer, and a file without a row belongs to a dataset, to a write in
\* progress, or to one that was interrupted.
ArtifactsMatchRows ==
    \A id \in Ids \ cut :
        /\ id \in rows \ orphaned => final[id].size = NBlocks
        /\ (final[id] # Absent /\ described[id] = {}) => id \in rows \cup orphaned \cup Held

\* Files, staging files, descriptors and rows agree, whoever fails or dies.
StorageInvariant ==
    StorageTypeOK /\ DescribedIsReadable /\ NothingLeftStaged /\ ArtifactsMatchRows
=============================================================================
