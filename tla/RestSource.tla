----------------------------- MODULE RestSource -----------------------------
(***************************************************************************)
(* Successive runs of a REST Source (workers/python/components/sources/    *)
(* rest_source.py) against an API whose records keep growing.  A run loads *)
(* the committed checkpoint, follows page tokens, proposes the next        *)
(* checkpoint and stores the pages; the worker commits the proposal after  *)
(* the run has succeeded and discards it otherwise (checkpoints.py).       *)
(*                                                                         *)
(* Records are numbered in the order they appear.  The API is external: a  *)
(* page holds up to PageSize records after a position, a token when there  *)
(* are more, and a watermark to remember.  APIs differ in the watermark of *)
(* an empty page and in whether their watermarks are text with capitals.   *)
(* Pages, tokens and watermarks are abstracted to record numbers.          *)
(***************************************************************************)
EXTENDS Naturals

CONSTANTS
    MaxRecords,     \* records that ever appear
    PageSize,       \* records on a page
    MaxRunFaults,   \* bound: requests and writes that fail
    Apis,           \* subset of [empty : {"echo", "null"}, capitals : BOOLEAN]
    Configurations  \* subset of Settings

Null == 0
Unknown == MaxRecords + 1    \* a watermark the API never gave out
Records == 1..MaxRecords
Settings == [nextPagePath : BOOLEAN, checkpointPath : BOOLEAN, checkpointParameter : BOOLEAN,
             maxPages : 1..1000, binding : {"none", "resolved", "unresolved"}]

ASSUME SourceAssumption ==
    /\ MaxRecords \in Nat /\ MaxRunFaults \in Nat
    /\ PageSize \in Nat \ {0}
    /\ Apis \subseteq [empty : {"echo", "null"}, capitals : BOOLEAN]
    /\ Configurations \subseteq Settings

VARIABLES
    api, config,
    log,         \* how many records the API has
    checkpoint,  \* the committed watermark
    phase,       \* where the run is
    since,       \* the checkpoint query parameter
    token,       \* the page token
    value,       \* the watermark to propose
    count,       \* pages read
    pages,       \* records on them
    candidate,   \* the proposed watermark, or Unknown when none is proposed
    delivered,   \* how often each record was in a succeeded run: 0, 1 or more (2)
    lost,        \* a commit failed after the run succeeded
    runFaults

sourceVars == <<api, config, log, checkpoint, phase, since, token, value, count, pages, candidate, delivered, lost, runFaults>>
settings == <<api, config>>
outcome == <<checkpoint, delivered, lost>>

SourceTypeOK ==
    /\ api \in Apis /\ config \in Configurations
    /\ log \in 0..MaxRecords /\ checkpoint \in 0..MaxRecords
    /\ phase \in {"idle", "paging", "fetched", "stored", "succeeded"}
    /\ since \in 0..Unknown /\ token \in 0..MaxRecords /\ value \in 0..Unknown
    /\ count \in 0..config.maxPages /\ pages \subseteq Records /\ candidate \in 0..Unknown
    /\ delivered \in [Records -> 0..2] /\ lost \in BOOLEAN /\ runFaults \in 0..MaxRunFaults

SourceInit ==
    /\ api \in Apis /\ config \in Configurations
    /\ log = 0 /\ checkpoint = Null /\ phase = "idle"
    /\ since = Null /\ token = Null /\ value = Null /\ count = 0 /\ pages = {} /\ candidate = Unknown
    /\ delivered = [r \in Records |-> 0] /\ lost = FALSE /\ runFaults = 0

\* The run is over: its memory and any proposal are gone.
EndRun ==
    /\ phase' = "idle" /\ since' = Null /\ token' = Null /\ value' = Null
    /\ count' = 0 /\ pages' = {} /\ candidate' = Unknown

-----------------------------------------------------------------------------
(* The API *)

AppendRecord ==
    /\ log < MaxRecords /\ log' = log + 1
    /\ UNCHANGED <<settings, outcome, phase, since, token, value, count, pages, candidate, runFaults>>

Position == IF token # Null THEN token ELSE since
PageEnd == IF Position + PageSize <= log THEN Position + PageSize ELSE log
PageRecords == {r \in Records : Position < r /\ r <= PageEnd}
NextToken == IF PageEnd < log THEN PageEnd ELSE Null
Watermark == IF PageRecords # {} THEN PageEnd ELSE IF api.empty = "echo" THEN since ELSE Null

-----------------------------------------------------------------------------
(* One run *)

\* from_request: a checkpoint path needs a parameter, and the reverse.
FromRequest == config.checkpointPath = config.checkpointParameter
BuildHeaders == config.binding # "unresolved"

\* Faulty: the remembered value is not sent.
ApplyNothing(loaded) == Null
\* The value is sent back in lower case: str(value).lower().
ApplyCheckpointQueryParameters(loaded) ==
    IF ~ config.checkpointParameter \/ loaded = Null THEN Null
    ELSE IF api.capitals THEN Unknown ELSE loaded

\* What was remembered; its page token is always null, because only a page
\* without a token ends the loop that proposes it.
LoadCheckpoint == checkpoint
ProposedCheckpoint == IF config.nextPagePath \/ config.checkpointPath THEN value ELSE Unknown

StartRun ==
    /\ phase = "idle" /\ FromRequest /\ BuildHeaders
    /\ phase' = "paging" /\ value' = LoadCheckpoint /\ since' = ApplyCheckpointQueryParameters(LoadCheckpoint)
    /\ UNCHANGED <<settings, outcome, log, token, count, pages, candidate, runFaults>>

ResponseCheckpointValue == IF config.checkpointPath THEN Watermark ELSE value
ResponsePageToken == IF config.nextPagePath THEN NextToken ELSE Null

WithinPageLimit == count < config.maxPages

\* One turn of the loop; it ends with the page that has no token.
ReadPage ==
    /\ phase = "paging" /\ WithinPageLimit /\ Position # Unknown
    /\ pages' = pages \cup PageRecords /\ count' = count + 1
    /\ value' = ResponseCheckpointValue /\ token' = ResponsePageToken
    /\ phase' = IF ResponsePageToken = Null THEN "fetched" ELSE "paging"
    /\ UNCHANGED <<settings, outcome, log, since, candidate, runFaults>>

ExceedPageLimit ==
    /\ phase = "paging" /\ ~ WithinPageLimit
    /\ EndRun /\ UNCHANGED <<settings, outcome, log, runFaults>>

\* The API refuses a watermark it does not know.
RejectRequest ==
    /\ phase = "paging" /\ Position = Unknown
    /\ EndRun /\ UNCHANGED <<settings, outcome, log, runFaults>>

\* A request, the write of the pages or a later component fails.
\* Faulty: a failed run keeps what it proposed.
KeepCandidate == IF candidate # Unknown THEN candidate ELSE checkpoint
DiscardRun == checkpoint
FailRun ==
    /\ phase \in {"paging", "fetched", "stored"} /\ runFaults < MaxRunFaults
    /\ runFaults' = runFaults + 1 /\ checkpoint' = DiscardRun
    /\ EndRun /\ UNCHANGED <<settings, log, delivered, lost>>

\* Nothing is proposed when nothing is to be remembered.
ProposeCheckpoint ==
    /\ phase = "fetched" /\ phase' = "stored"
    /\ candidate' = ProposedCheckpoint
    /\ UNCHANGED <<settings, outcome, log, since, token, value, count, pages, runFaults>>

SucceedRun ==
    /\ phase = "stored" /\ phase' = "succeeded"
    /\ delivered' = [r \in Records |-> IF r \in pages /\ delivered[r] < 2 THEN delivered[r] + 1 ELSE delivered[r]]
    /\ UNCHANGED <<settings, log, checkpoint, since, token, value, count, pages, candidate, lost, runFaults>>

CommitAfterRunSuccess ==
    /\ phase = "succeeded" /\ checkpoint' = IF candidate = Unknown THEN checkpoint ELSE candidate
    /\ EndRun /\ UNCHANGED <<settings, log, delivered, lost, runFaults>>

LoseCommit ==
    /\ phase = "succeeded" /\ runFaults < MaxRunFaults
    /\ runFaults' = runFaults + 1 /\ lost' = TRUE
    /\ EndRun /\ UNCHANGED <<settings, log, checkpoint, delivered>>

Progress ==
    \/ StartRun \/ ReadPage \/ ExceedPageLimit \/ RejectRequest
    \/ ProposeCheckpoint \/ SucceedRun \/ CommitAfterRunSuccess
SourceNext == AppendRecord \/ Progress \/ FailRun \/ LoseCommit

SourceSpec == SourceInit /\ [][SourceNext]_sourceVars

-----------------------------------------------------------------------------
(* Properties *)

\* Every record at or before the committed watermark was in a run that
\* succeeded: whatever fails, and in whatever order records appear while pages
\* are read, the next run does not start after records nobody delivered.
NoGap == \A r \in Records : (config.checkpointPath /\ r <= checkpoint) => delivered[r] > 0

\* With an API whose empty page repeats the watermark, and no commit lost after
\* success, no record is delivered by two runs of a Source that remembers its
\* position.
NothingTwice ==
    (config.checkpointPath /\ api.empty = "echo" /\ ~ lost) => \A r \in Records : delivered[r] < 2

\* The committed position is exactly what was delivered, over all runs.
SourceInvariant == SourceTypeOK /\ NoGap /\ NothingTwice

\* Every record is delivered in the end, as long as what has to be read at once
\* is within the page limit and the API takes its watermarks in lower case.
EveryRecordDelivered ==
    LET Readable == /\ FromRequest /\ BuildHeaders /\ ~ api.capitals
                    /\ config.nextPagePath \/ config.checkpointPath
                    /\ MaxRecords <= config.maxPages * PageSize
    IN  \A r \in Records : (Readable /\ log >= r) ~> (delivered[r] > 0)
=============================================================================
