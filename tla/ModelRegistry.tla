---------------------------- MODULE ModelRegistry ----------------------------
(***************************************************************************)
(* services/ml-pipeline/model_registry.py: models in directories, an index *)
(* in one JSON file.                                                       *)
(*                                                                         *)
(* Every process that makes a ModelRegistry reads the index once and from  *)
(* then on saves its own copy of it, whole: nothing reads it again and     *)
(* nothing locks it. A session is such a process. One step is one file     *)
(* written; a process may die at each of them, and leave the file cut off  *)
(* (open(..., "w") truncates before json.dump writes).                     *)
(***************************************************************************)
EXTENDS Integers, FiniteSets

CONSTANTS
    Models,     \* bound: model ids (time stamps, each registered once)
    Sessions,   \* processes with a ModelRegistry
    NoModel

ASSUME RegistryAssumption == NoModel \notin Models

VARIABLES
    meta,       \* model -> its directory: "absent", "files" (no metadata.json),
                \* "torn", or the status its metadata.json has
    disk,       \* registry_index.json
    session,    \* session -> [pc, model, index, fresh]
    used,       \* ids given out
    conflict,   \* history: a process saved its index, or deleted a model, that
                \* another one's write had made out of date or was about to
    crashed     \* history: a process died between two writes

registry == <<meta, disk, session, used, conflict, crashed>>

Statuses == {"candidate", "champion", "archived"}

\* get_metadata: what is written there can be read back.
Readable(m) == meta[m] \in Statuses

EmptyIndex == [torn |-> FALSE, models |-> [m \in Models |-> "absent"], champion |-> NoModel]
Closed == [pc |-> "closed", model |-> NoModel, index |-> EmptyIndex, fresh |-> TRUE]

InitRegistry ==
    /\ meta = [m \in Models |-> "absent"]
    /\ disk = EmptyIndex
    /\ session = [s \in Sessions |-> Closed]
    /\ used = {} /\ conflict = FALSE /\ crashed = FALSE

\* get_model_path: the index lists the model, and its file is there.
HasPath(index, m) == index.models[m] # "absent" /\ meta[m] # "absent"

\* get_champion, or nothing.
GetChampion(index) == {m \in Models : index.champion = m /\ HasPath(index, m)}

\* list_models(status): by the status in the index, with metadata that can be read.
ListModels(index, status) == {m \in Models : index.models[m] = status /\ Readable(m)}

At(s, step) == session[s].pc = step
Known(s, m) == session[s].index.models[m] # "absent"

\* The session's next step; an operation that returned leaves nothing behind.
Step(sess, next) ==
    [sess EXCEPT !.pc = next, !.model = IF next = "ready" THEN NoModel ELSE sess.model]
Goto(s, next) == session' = [session EXCEPT ![s] = Step(session[s], next)]

\* What the other processes have read is out of date.
Outdate(sessions, s) ==
    [t \in Sessions |-> IF t = s THEN sessions[s] ELSE [sessions[t] EXCEPT !.fresh = FALSE]]

Busy(s) == session[s].pc \notin {"closed", "ready"}
Conflicts(s) == ~session[s].fresh \/ \E t \in Sessions \ {s} : Busy(t)

\* _save_index: the whole copy is written.
SaveIndex(s, index, next) ==
    /\ disk' = index
    /\ session' = Outdate([session EXCEPT ![s] =
                     Step([session[s] EXCEPT !.index = index], next)], s)
    /\ conflict' = (conflict \/ Conflicts(s))
    /\ UNCHANGED <<used, crashed>>

Entered(index, m, status) == [index EXCEPT !.models = [index.models EXCEPT ![m] = status]]

\* metadata.json is written, and the entry of the copy set; the save follows.
WriteMetadata(s, m, status, next) ==
    /\ meta' = [meta EXCEPT ![m] = status]
    /\ session' = [session EXCEPT ![s] =
           [session[s] EXCEPT !.index = Entered(session[s].index, m, status), !.pc = next]]
    /\ UNCHANGED <<disk, used, conflict, crashed>>

----------------------------------------------------------------------------
(* Sessions.                                                               *)

\* __init__: a torn index cannot be parsed, and the process ends.
Open(s) ==
    /\ At(s, "closed")
    /\ ~disk.torn
    /\ session' = [session EXCEPT ![s] = [Closed EXCEPT !.pc = "ready", !.index = disk]]
    /\ UNCHANGED <<meta, disk, used, conflict, crashed>>

Close(s) ==
    /\ At(s, "ready")
    /\ session' = [session EXCEPT ![s] = Closed]
    /\ UNCHANGED <<meta, disk, used, conflict, crashed>>

\* An operation begins.
Call(s, m, first) ==
    /\ At(s, "ready")
    /\ session' = [session EXCEPT ![s] = [session[s] EXCEPT !.model = m, !.pc = first]]
    /\ UNCHANGED <<meta, disk, conflict, crashed>>

Register(s, m) == m \notin used /\ used' = used \cup {m} /\ Call(s, m, "copy")
Promote(s, m) == Known(s, m) /\ Call(s, m, "old") /\ UNCHANGED used
Archive(s, m) == Known(s, m) /\ Call(s, m, "archive") /\ UNCHANGED used

MayDeleteAny(s, m) == Known(s, m)
MayDelete(s, m) == Known(s, m) /\ session[s].index.champion # m

Delete(s, m) == Known(s, m) /\ Call(s, m, "delete") /\ UNCHANGED used

----------------------------------------------------------------------------
(* Their steps.                                                            *)

\* register_model
CopyFiles(s, m) ==
    /\ At(s, "copy")
    /\ meta' = [meta EXCEPT ![m] = "files"]
    /\ Goto(s, "describe")
    /\ UNCHANGED <<disk, used, conflict, crashed>>

Describe(s, m) == At(s, "describe") /\ WriteMetadata(s, m, "candidate", "save")

\* The last write of register_model, archive_model.
Save(s) == At(s, "save") /\ SaveIndex(s, session[s].index, "ready") /\ UNCHANGED meta

\* Without archiving the old champion.
KeepOld(s) == At(s, "old") /\ Goto(s, "new") /\ UNCHANGED <<meta, disk, used, conflict, crashed>>

\* promote_to_champion: the old champion is archived if its metadata is there.
ArchiveOld(s) ==
    LET old == session[s].index.champion
    IN  /\ At(s, "old")
        /\ IF old # NoModel /\ Readable(old) /\ Known(s, old)
           THEN WriteMetadata(s, old, "archived", "saveOld")
           ELSE /\ Goto(s, IF old # NoModel /\ meta[old] = "torn" THEN "ready" ELSE "new")
                /\ UNCHANGED <<meta, disk, used, conflict, crashed>>

SaveOld(s) == At(s, "saveOld") /\ SaveIndex(s, session[s].index, "new") /\ UNCHANGED meta

\* Without readable metadata the promotion ends here: False, or an exception.
PromoteNew(s, m) ==
    /\ At(s, "new")
    /\ IF Readable(m)
       THEN WriteMetadata(s, m, "champion", "saveNew")
       ELSE Goto(s, "ready") /\ UNCHANGED <<meta, disk, used, conflict, crashed>>

SaveNew(s) == At(s, "saveNew") /\ SaveIndex(s, session[s].index, "point") /\ UNCHANGED meta

Point(s, m) ==
    /\ At(s, "point")
    /\ SaveIndex(s, [session[s].index EXCEPT !.champion = m], "ready")
    /\ UNCHANGED meta

\* archive_model, of the champion too.
ArchiveModel(s, m) ==
    /\ At(s, "archive")
    /\ IF Readable(m)
       THEN WriteMetadata(s, m, "archived", "save")
       ELSE Goto(s, "ready") /\ UNCHANGED <<meta, disk, used, conflict, crashed>>

Forgotten(s, m) == Entered(session[s].index, m, "absent")

\* delete_model: the directory goes before the entry; the champion stays.
RemoveFiles(s, m) ==
    /\ At(s, "delete")
    /\ IF MayDelete(s, m)
       THEN /\ meta' = [meta EXCEPT ![m] = "absent"]
            /\ session' = Outdate([session EXCEPT ![s].pc = "forget"], s)
            /\ conflict' = (conflict \/ Conflicts(s))
       ELSE Goto(s, "ready") /\ UNCHANGED <<meta, conflict>>
    /\ UNCHANGED <<disk, used, crashed>>

Forget(s, m) == At(s, "forget") /\ SaveIndex(s, Forgotten(s, m), "ready") /\ UNCHANGED meta

OperationStep(s) ==
    LET m == session[s].model
    IN  \/ CopyFiles(s, m) \/ Describe(s, m) \/ Save(s)
        \/ ArchiveOld(s) \/ SaveOld(s) \/ PromoteNew(s, m) \/ SaveNew(s) \/ Point(s, m)
        \/ ArchiveModel(s, m)
        \/ RemoveFiles(s, m) \/ Forget(s, m)

\* The process dies, before a write or with its file cut off.
Crash(s) ==
    /\ Busy(s)
    /\ crashed' = TRUE
    /\ session' = [session EXCEPT ![s] = Closed]
    /\ \/ UNCHANGED <<meta, disk>>
       \/ /\ session[s].pc \in {"describe", "new", "archive"}
          /\ meta[session[s].model] # "absent"
          /\ meta' = [meta EXCEPT ![session[s].model] = "torn"]
          /\ UNCHANGED disk
       \/ /\ session[s].pc = "old" /\ session[s].index.champion # NoModel
          /\ Readable(session[s].index.champion)
          /\ meta' = [meta EXCEPT ![session[s].index.champion] = "torn"]
          /\ UNCHANGED disk
       \/ /\ session[s].pc \in {"save", "saveOld", "saveNew", "point", "forget"}
          /\ disk' = [EmptyIndex EXCEPT !.torn = TRUE]
          /\ UNCHANGED meta
    /\ UNCHANGED <<used, conflict>>

----------------------------------------------------------------------------
(* Properties.                                                             *)

Index == [torn : BOOLEAN, models : [Models -> Statuses \cup {"absent"}],
          champion : Models \cup {NoModel}]

SessionState ==
    [pc : {"closed", "ready", "copy", "describe", "save", "old", "saveOld", "new",
           "saveNew", "point", "archive", "delete", "forget"},
     model : Models \cup {NoModel}, index : Index, fresh : BOOLEAN]

TypeOKRegistry ==
    /\ meta \in [Models -> Statuses \cup {"absent", "files", "torn"}]
    /\ disk \in Index
    /\ session \in [Sessions -> SessionState]
    /\ used \subseteq Models
    /\ conflict \in BOOLEAN /\ crashed \in BOOLEAN

\* The inference server can always be restarted: the champion the index names is
\* listed and its files are there, whatever process died at whatever write, as
\* long as no two of them were in each other's way.
ChampionServable ==
    ~conflict /\ ~disk.torn /\ disk.champion # NoModel => GetChampion(disk) # {}

\* Whoever lists the models while another process promotes one never sees two
\* champions. (A process that died in a promotion can leave a second one, as can
\* two processes at once.)
OneChampion ==
    ~conflict /\ ~crashed => Cardinality(ListModels(disk, "champion")) <= 1
=============================================================================
