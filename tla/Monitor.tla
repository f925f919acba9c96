------------------------------- MODULE Monitor --------------------------------
(***************************************************************************)
(* What a monitor learns of the syncer through /status (src/progress.rs):   *)
(* three relaxed atomics the sync loop stores when a sync begins and when a *)
(* pass has been saved, and a handler loads one by one on another thread.   *)
(*                                                                         *)
(* A handler may be suspended between its loads for any time, so any steps  *)
(* of the syncer fall between them.  The loads and stores themselves may be *)
(* reordered by the processor, never over more than one record: the sample  *)
(* that this can give is the one of a record half stored, see HalfStored.   *)
(***************************************************************************)
EXTENDS Syncer

VARIABLES report,    \* Progress: cursor and tip
          sample,    \* a sample under way: the cursor it loaded, what it should show
          aim,       \* history: the target of the last sync, 0 in a new process
          rewound    \* history: a repair moved the cursor back since the last record

monitorVars == <<report, sample, aim, rewound>>
allVars == <<vars, monitorVars>>

Unrecorded == [cursor |-> 0, tip |-> 0]
NoSample == [cursor |-> MaxBlock + 1, least |-> 0]

(* How far the syncer has to go to where it is heading; a rewind is not     *)
(* reported, so nothing is expected of a sample until the next sync begins. *)
Outstanding == IF rewound THEN 0 ELSE Minus(aim, balances.cursor)
Sampling == sample # NoSample

-------------------------------------------------------------------------------
(* Progress::record with the arguments of its three callers: catch_up_once  *)
(* and pass before they sync, finish_pass after the save.                   *)
RecordTarget ==      \* mutant: the cursor the sync is going to reach
    report' = [cursor |-> TipNow, tip |-> TipNow]
RecordStart ==
    report' = [cursor |-> balances.cursor, tip |-> TipNow]
RecordFinish ==
    report' = [cursor |-> balances.cursor,
               tip    |-> IF balances.cursor > report.tip THEN balances.cursor ELSE report.tip]

(* Every other step of the process leaves the three numbers alone, also the *)
(* end of the catch-up and a pass that fails.                               *)
Unreported ==
    \/ CheckCursorHash \/ Repair \/ AtTip \/ FetchLogs \/ NarrowRange \/ ApplyChunk
    \/ FinishCatchUp \/ BlockMissing
    \/ RpcFails \/ ChunkSaveFails \/ HashFails \/ FinalSaveFails
    \/ Environment

Observed ==
    sample' = IF Sampling /\ Outstanding' < sample.least
                THEN [sample EXCEPT !.least = Outstanding'] ELSE sample

SyncerStep ==
    \/ /\ StartSync /\ RecordStart /\ aim' = TipNow /\ rewound' = FALSE
       /\ Observed
    \/ /\ FinishPass /\ RecordFinish /\ rewound' = FALSE
       /\ UNCHANGED aim /\ Observed
    \/ /\ Restart /\ report' = Unrecorded /\ aim' = 0 /\ rewound' = FALSE
       /\ sample' = NoSample
    \/ /\ Unreported /\ UNCHANGED <<report, aim>>
       /\ rewound' = (rewound \/ balances'.cursor < balances.cursor)
       /\ Observed

(* Progress::sample: the load of the cursor, and then that of the tip.  The *)
(* endpoint is open once the syncer follows.                                *)
LoadCursor ==
    /\ mode = "follow" /\ ~Sampling
    /\ sample' = [cursor |-> report.cursor, least |-> Outstanding]
    /\ UNCHANGED <<vars, report, aim, rewound>>

LoadTip ==
    /\ Sampling /\ sample' = NoSample
    /\ UNCHANGED <<vars, report, aim, rewound>>

MonitorInit ==
    /\ Init
    /\ report = Unrecorded /\ sample = NoSample /\ aim = 0 /\ rewound = FALSE
MonitorNext == SyncerStep \/ LoadCursor \/ LoadTip

MonitorSpec == MonitorInit /\ [][MonitorNext]_allVars

-------------------------------------------------------------------------------
(* A sample completed by this step, and the new cursor of a record beside   *)
(* the old tip.                                                             *)
SampleHonest == LoadTip => Minus(report.tip, sample.cursor) >= sample.least
HalfStored ==
    report' # report /\ crashes' = crashes /\ mode = "follow" =>
        Minus(report.tip, report'.cursor) >= Smaller(Outstanding, Outstanding')

(* The lag a sample shows is never less than what the syncer had still to   *)
(* do at some moment while it was taken, however its loads tear, and        *)
(* through failed passes and saves: a stalled sync does not look finished.  *)
(* Only a rewind goes unreported, until the sync after it begins.           *)
LagNeverHidden == [][SampleHonest /\ HalfStored]_allVars
===============================================================================
