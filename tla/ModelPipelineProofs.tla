------------------------ MODULE ModelPipelineProofs -------------------------
(***************************************************************************)
(* The safety properties of ModelRegistry, of ModelRollout and of          *)
(* ModelServing, for any number of models, processes and requests, any     *)
(* steps of the rollout and any size of a batch.                           *)
(***************************************************************************)
EXTENDS ModelRollout, ModelServing, FiniteSetTheorems, SequenceTheorems, TLAPS

----------------------------------------------------------------------------
(* The inductive invariant.                                                *)

\* A champion is an entry of its index.
ChampionListed(index) == index.champion # NoModel => index.models[index.champion] # "absent"

\* What a process has in mind: the model of its operation is one it knows, unless it
\* is still registering it, and never the champion once its files are deleted.
Registering(q) == q.pc \in {"copy", "describe"}
Working(q) == q.pc \notin {"closed", "ready", "copy", "describe"}
Sound(q) ==
    /\ ~q.index.torn /\ ChampionListed(q.index)
    /\ q.pc = "closed" => q.index = EmptyIndex
    /\ Registering(q) => q.model \in Models
    /\ Working(q) => q.model \in Models /\ q.index.models[q.model] # "absent"
    /\ q.pc = "forget" => q.model # q.index.champion

SoundOK ==
    /\ ChampionListed(disk) /\ (disk.torn => disk.champion = NoModel)
    /\ \A s \in Sessions : Sound(session[s])

\* A model that nobody gave out, or whose registration is not finished, is in no
\* index, neither on the disk nor in a copy.
Unlisted(m) ==
    disk.models[m] = "absent" /\ \A s \in Sessions : session[s].index.models[m] = "absent"

NewOK ==
    /\ \A m \in Models : m \notin used \/ meta[m] = "files" => Unlisted(m)
    /\ \A m \in Models : meta[m] = "torn" => crashed
    /\ \A s \in Sessions :
         Registering(session[s]) => session[s].model \in used /\ Unlisted(session[s].model)
    /\ \A s, t \in Sessions :
         Registering(session[s]) /\ Registering(session[t]) /\ session[s].model = session[t].model
           => s = t

\* The champion's files are there, for the index on the disk and for every copy that
\* is not out of date; and so are those of a model that is about to be champion.
HasFiles(index) == index.champion # NoModel => meta[index.champion] # "absent"
Current(q) == q.pc # "closed" /\ q.fresh
ServeOK ==
    ~conflict =>
        /\ HasFiles(disk)
        /\ \A s \in Sessions :
             /\ Current(session[s]) =>
                  /\ HasFiles(session[s].index)
                  /\ ~disk.torn => session[s].index.champion = disk.champion
             /\ session[s].pc \in {"saveNew", "point"} => meta[session[s].model] # "absent"

\* The models with the status "champion" in an index.
Champions(index) == {m \in Models : index.models[m] = "champion"}

\* Those of a copy, at each step of a promotion.
Ranks(q) ==
    Champions(q.index) \subseteq
        CASE q.pc \in {"saveOld", "new"}   -> {}
          [] q.pc \in {"saveNew", "point"} -> {q.model}
          [] OTHER                         -> {q.index.champion}

\* The index on the disk is between the last two writes of a promotion.
Between(S) == \E s \in S : session[s].pc = "point"

RanksOK ==
    ~conflict /\ ~crashed =>
        /\ ~disk.torn
        /\ \A m, n \in Champions(disk) : m = n
        /\ Between(Sessions) \/ Champions(disk) \subseteq {disk.champion}
        /\ \A s \in Sessions :
             Current(session[s]) => Between(Sessions \ {s}) \/ Ranks(session[s])

\* The manager's process promotes only at the end of the rollout.
RolloutState ==
    [pc : {"off", "deploy", "watch", "promote", "promoting", "done"},
     step : 1..Len(Shares), phase : {"inactive", "pilot", "ramp_up", "full_rollout", "rollback"},
     share : 0..100, reported : 0..100, verdict : {"continue", "promote", "rollback"}]

RolloutOK ==
    /\ rollout \in RolloutState
    /\ rollout.pc \in {"promote", "promoting"} =>
         rollout.step = Len(Shares) /\ rollout.verdict = "promote"
    /\ Busy(Manager) => rollout.pc = "promoting"

IInv == TypeOKRegistry /\ SoundOK /\ NewOK /\ ServeOK /\ RanksOK /\ RolloutOK

----------------------------------------------------------------------------
(* Records.                                                                *)

LEMMA EnteredFacts ==
    ASSUME NEW index \in Index, NEW m \in Models, NEW status \in Statuses \cup {"absent"}
    PROVE  /\ Entered(index, m, status) \in Index
           /\ Entered(index, m, status).torn = index.torn
           /\ Entered(index, m, status).champion = index.champion
           /\ Entered(index, m, status).models[m] = status
           /\ \A n \in Models : n # m => Entered(index, m, status).models[n] = index.models[n]
<1> DEFINE f == [index.models EXCEPT ![m] = status]
<1>1. index.models \in [Models -> Statuses \cup {"absent"}]
  BY DEF Index
<1>2. /\ f \in [Models -> Statuses \cup {"absent"}]
      /\ f[m] = status /\ \A n \in Models : n # m => f[n] = index.models[n]
  BY <1>1
<1>3. Entered(index, m, status) = [index EXCEPT !.models = f]
  BY DEF Entered
<1> HIDE DEF f
<1>4. /\ Entered(index, m, status) \in Index
      /\ Entered(index, m, status).torn = index.torn
      /\ Entered(index, m, status).champion = index.champion
      /\ Entered(index, m, status).models = f
  BY <1>2, <1>3 DEF Index
<1> QED
  BY <1>2, <1>4

\* What a process that dies while it saves the index leaves.
TornIndex == [EmptyIndex EXCEPT !.torn = TRUE]

LEMMA EmptyFacts ==
    /\ EmptyIndex \in Index /\ ~EmptyIndex.torn /\ EmptyIndex.champion = NoModel
    /\ \A m \in Models : EmptyIndex.models[m] = "absent"
    /\ Closed \in SessionState /\ Closed.pc = "closed" /\ Closed.index = EmptyIndex
    /\ TornIndex \in Index /\ TornIndex.torn
    /\ TornIndex.champion = NoModel
    /\ \A m \in Models : TornIndex.models[m] = "absent"
<1>1. /\ EmptyIndex \in Index /\ ~EmptyIndex.torn /\ EmptyIndex.champion = NoModel
      /\ \A m \in Models : EmptyIndex.models[m] = "absent"
  BY DEF EmptyIndex, Index
<1> DEFINE e == EmptyIndex
<1> HIDE DEF e
<1>2. e \in Index => [e EXCEPT !.torn = TRUE] \in Index /\ [e EXCEPT !.torn = TRUE].torn
                     /\ [e EXCEPT !.torn = TRUE].champion = e.champion
                     /\ [e EXCEPT !.torn = TRUE].models = e.models
  BY DEF Index
<1>3. /\ TornIndex \in Index /\ TornIndex.torn
      /\ TornIndex.champion = NoModel
      /\ \A m \in Models : TornIndex.models[m] = "absent"
  BY <1>1, <1>2 DEF e, TornIndex
<1>4. Closed \in SessionState /\ Closed.pc = "closed" /\ Closed.index = EmptyIndex
  BY <1>1 DEF Closed, SessionState
<1> QED
  BY <1>1, <1>3, <1>4

\* One process moves to q, the others stay where they are, though what they have
\* read may now be out of date.
Moves(s, q) ==
    /\ session' \in [Sessions -> SessionState]
    /\ session'[s] = q
    /\ \A t \in Sessions : t # s =>
         /\ session'[t].pc = session[t].pc /\ session'[t].model = session[t].model
         /\ session'[t].index = session[t].index
Alone(s, q) == Moves(s, q) /\ \A t \in Sessions : t # s => session'[t].fresh = session[t].fresh
Outdating(s, q) == Moves(s, q) /\ \A t \in Sessions : t # s => ~session'[t].fresh

LEMMA MoveFacts ==
    ASSUME TypeOKRegistry, NEW s \in Sessions, NEW q \in SessionState
    PROVE  /\ session' = [session EXCEPT ![s] = q] => Alone(s, q)
           /\ session' = Outdate([session EXCEPT ![s] = q], s) => Outdating(s, q)
<1> DEFINE moved == [session EXCEPT ![s] = q]
<1>1. /\ moved \in [Sessions -> SessionState] /\ moved[s] = q
      /\ \A t \in Sessions : t # s => moved[t] = session[t]
  BY DEF TypeOKRegistry
<1> HIDE DEF moved
<1>2. session' = moved => Alone(s, q)
  BY <1>1 DEF Alone, Moves
<1>3. ASSUME session' = Outdate(moved, s) PROVE Outdating(s, q)
  <2>1. session' = [t \in Sessions |-> IF t = s THEN moved[s] ELSE [moved[t] EXCEPT !.fresh = FALSE]]
    BY <1>3 DEF Outdate
  <2>2. ASSUME NEW t \in Sessions, t # s
        PROVE  /\ session'[t] \in SessionState /\ ~session'[t].fresh
               /\ session'[t].pc = session[t].pc /\ session'[t].model = session[t].model
               /\ session'[t].index = session[t].index
    <3>1. session'[t] = [session[t] EXCEPT !.fresh = FALSE] /\ session[t] \in SessionState
      BY <1>1, <2>1, <2>2
    <3> QED
      BY <3>1 DEF SessionState
  <2>3. session'[s] = q
    BY <1>1, <2>1
  <2>4. \A t \in Sessions : session'[t] \in SessionState
    BY <2>2, <2>3
  <2>5. session' \in [Sessions -> SessionState]
    BY <2>1, <2>4
  <2> QED
    BY <2>2, <2>3, <2>5 DEF Outdating, Moves
<1> QED
  BY <1>2, <1>3 DEF moved

----------------------------------------------------------------------------
(* What a step must see to, for each part of the invariant.                *)

LEMMA SoundMoves ==
    ASSUME SoundOK, NEW s \in Sessions, NEW q \in SessionState, Moves(s, q), Sound(q),
           disk' \in {disk, q.index, TornIndex}
    PROVE  SoundOK'
<1>1. ChampionListed(disk') /\ (disk'.torn => disk'.champion = NoModel)
  BY EmptyFacts DEF SoundOK, Sound, ChampionListed
<1>2. ASSUME NEW t \in Sessions PROVE Sound(session[t])'
  <2>1. CASE t = s
    <3>1. session'[t] = q
      BY <2>1 DEF Moves
    <3> QED
      BY <3>1 DEF Sound, ChampionListed, Registering, Working
  <2>2. CASE t # s
    <3>1. /\ session'[t].pc = session[t].pc /\ session'[t].model = session[t].model
          /\ session'[t].index = session[t].index
      BY <2>2 DEF Moves
    <3>2. Sound(session[t])
      BY DEF SoundOK
    <3> QED
      BY <3>1, <3>2 DEF Sound, ChampionListed, Registering, Working
  <2> QED
    BY <2>1, <2>2
<1> QED
  BY <1>1, <1>2 DEF SoundOK, ChampionListed

\* Nothing but x is listed that was not.
LEMMA UnlistedStays ==
    ASSUME NEW s \in Sessions, NEW q, Moves(s, q), NEW m \in Models, Unlisted(m),
           q.index.models[m] # "absent" =>
               session[s].index.models[m] # "absent" \/ disk.models[m] # "absent",
           disk'.models[m] # "absent" =>
               session[s].index.models[m] # "absent" \/ disk.models[m] # "absent"
    PROVE  Unlisted(m)'
<1>1. disk'.models[m] = "absent" /\ q.index.models[m] = "absent"
  BY DEF Unlisted
<1>2. ASSUME NEW t \in Sessions PROVE session'[t].index.models[m] = "absent"
  BY <1>1 DEF Moves, Unlisted
<1> QED
  BY <1>1, <1>2 DEF Unlisted

LEMMA NewMoves ==
    ASSUME TypeOKRegistry, SoundOK, NewOK, NEW s \in Sessions, NEW q, Moves(s, q), NEW x,
           \A m \in Models : m # x =>
               /\ q.index.models[m] # "absent" =>
                    session[s].index.models[m] # "absent" \/ disk.models[m] # "absent"
               /\ disk'.models[m] # "absent" =>
                    session[s].index.models[m] # "absent" \/ disk.models[m] # "absent"
               /\ meta'[m] = "files" => meta[m] = "files" \/ Unlisted(m),
           \A m \in Models : meta'[m] = "torn" => meta[m] = "torn" \/ crashed',
           crashed => crashed', used \subseteq used',
           x \in Models =>
               /\ x \in used' /\ meta'[x] # "files"
               /\ \A t \in Sessions : t # s /\ Registering(session[t]) => session[t].model # x,
           Registering(q) =>
               /\ q.model \in used' /\ q.model \in Models /\ q.model # x /\ Unlisted(q.model)
               /\ \A t \in Sessions : t # s /\ Registering(session[t]) => session[t].model # q.model
    PROVE  NewOK'
<1>1. ASSUME NEW m \in Models, m # x, Unlisted(m) PROVE Unlisted(m)'
  BY <1>1, UnlistedStays
<1>2. ASSUME NEW m \in Models, m \notin used' \/ meta'[m] = "files" PROVE Unlisted(m)'
  <2>1. m # x
    BY <1>2
  <2>2. Unlisted(m)
    BY <1>2, <2>1 DEF NewOK
  <2> QED
    BY <1>1, <2>1, <2>2
<1>3. \A m \in Models : meta'[m] = "torn" => crashed'
  BY DEF NewOK
<1>4. \A t \in Sessions : t # s =>
        session'[t].model = session[t].model /\ session'[t].pc = session[t].pc
  BY DEF Moves
<1>5. session'[s] = q
  BY DEF Moves
<1>6. ASSUME NEW t \in Sessions, Registering(session'[t]), NEW m, m = session'[t].model
      PROVE  m \in used' /\ Unlisted(m)'
  <2>1. CASE t = s
    <3>1. m = q.model /\ Registering(q)
      BY <1>5, <1>6, <2>1
    <3>2. m \in Models /\ m # x /\ m \in used' /\ Unlisted(m)
      BY <3>1
    <3> QED
      BY <1>1, <3>2
  <2>2. CASE t # s
    <3>1. Registering(session[t]) /\ m = session[t].model
      BY <1>4, <1>6, <2>2 DEF Registering
    <3>2. m \in Models /\ m \in used /\ Unlisted(m)
      BY <3>1 DEF NewOK, SoundOK, Sound
    <3>3. m # x
      BY <2>2, <3>1, <3>2
    <3> QED
      BY <1>1, <3>2, <3>3
  <2> QED
    BY <2>1, <2>2
<1>7. ASSUME NEW t \in Sessions, NEW u \in Sessions,
             Registering(session'[t]), Registering(session'[u]),
             session'[t].model = session'[u].model
      PROVE  t = u
  <2>1. ASSUME NEW v \in Sessions, v # s, Registering(session'[v])
        PROVE  Registering(session[v]) /\ session[v].model = session'[v].model
    BY <1>4, <2>1 DEF Registering
  <2>2. CASE t # s /\ u # s
    BY <1>7, <2>1, <2>2 DEF NewOK
  <2>3. CASE t = s /\ u # s
    BY <1>5, <1>7, <2>1, <2>3
  <2>4. CASE t # s /\ u = s
    BY <1>5, <1>7, <2>1, <2>4
  <2> QED
    BY <2>2, <2>3, <2>4
<1>8. \A t \in Sessions : Registering(session[t])' <=> Registering(session'[t])
  BY DEF Registering
<1>9. (\A t \in Sessions :
          Registering(session[t]) => session[t].model \in used /\ Unlisted(session[t].model))'
  <2> SUFFICES ASSUME NEW t \in Sessions, Registering(session[t])'
               PROVE  (session[t].model \in used /\ Unlisted(session[t].model))'
    OBVIOUS
  <2>1. Registering(session'[t])
    BY <1>8
  <2>2. \A m : m = session'[t].model => m \in used' /\ Unlisted(m)'
    BY <1>6, <2>1
  <2> DEFINE m == session'[t].model
  <2>3. m \in used' /\ disk'.models[m] = "absent"
        /\ \A u \in Sessions : session'[u].index.models[m] = "absent"
    BY <2>2 DEF Unlisted
  <2> QED
    BY <2>3 DEF Unlisted
<1> QED
  BY <1>2, <1>3, <1>7, <1>8, <1>9 DEF NewOK

\* A step that leaves the index on the disk alone and deletes nothing.
LEMMA ServeMoves ==
    ASSUME TypeOKRegistry, SoundOK, ServeOK, NEW s \in Sessions, NEW q \in SessionState, Alone(s, q),
           Sound(q), conflict' = conflict, disk' = disk \/ disk' = TornIndex,
           \A m \in Models : meta[m] # "absent" => meta'[m] # "absent",
           Current(q) => q.index = disk \/
                         (Current(session[s]) /\ q.index.champion = session[s].index.champion),
           q.pc \in {"saveNew", "point"} => meta'[q.model] # "absent"
    PROVE  ServeOK'
<1> SUFFICES ASSUME ~conflict PROVE ServeOK'
  BY DEF ServeOK
<1>1. /\ HasFiles(disk)
      /\ \A t \in Sessions :
           /\ Current(session[t]) =>
                /\ HasFiles(session[t].index)
                /\ ~disk.torn => session[t].index.champion = disk.champion
           /\ session[t].pc \in {"saveNew", "point"} => meta[session[t].model] # "absent"
  BY DEF ServeOK
<1>2. \A t \in Sessions : t # s =>
        /\ session'[t].pc = session[t].pc /\ session'[t].model = session[t].model
        /\ session'[t].index = session[t].index /\ session'[t].fresh = session[t].fresh
  BY DEF Alone, Moves
<1>3. session'[s] = q
  BY DEF Alone, Moves
<1>4. HasFiles(disk)'
  <2>1. TornIndex.champion = NoModel /\ (disk.champion # NoModel => disk.champion \in Models)
    BY EmptyFacts DEF TypeOKRegistry, Index
  <2> QED
    BY <1>1, <2>1 DEF HasFiles
<1>5. ~disk'.torn => disk' = disk
  BY EmptyFacts
<1>6. ASSUME NEW t \in Sessions
      PROVE  /\ Current(session'[t]) =>
                  /\ session'[t].index.champion # NoModel =>
                       meta'[session'[t].index.champion] # "absent"
                  /\ ~disk'.torn => session'[t].index.champion = disk'.champion
             /\ session'[t].pc \in {"saveNew", "point"} => meta'[session'[t].model] # "absent"
  <2>1. CASE t # s
    <3>1. session[t].index.champion # NoModel => session[t].index.champion \in Models
      BY DEF TypeOKRegistry, SessionState, Index
    <3>2. session[t].pc \in {"saveNew", "point"} => session[t].model \in Models
      BY DEF SoundOK, Sound, Working
    <3>3. Current(session'[t]) => Current(session[t])
      BY <1>2, <2>1 DEF Current
    <3> QED
      BY <1>1, <1>2, <1>5, <2>1, <3>1, <3>2, <3>3 DEF HasFiles
  <2>2. CASE t = s
    <3>1. /\ session[s].index.champion # NoModel => session[s].index.champion \in Models
          /\ disk.champion # NoModel => disk.champion \in Models
      BY DEF TypeOKRegistry, SessionState, Index
    <3>2. ASSUME Current(q)
          PROVE  /\ q.index.champion # NoModel => meta[q.index.champion] # "absent" /\ q.index.champion \in Models
                 /\ ~disk.torn => q.index.champion = disk.champion
      <4>1. CASE q.index = disk
        BY <1>1, <3>1, <4>1 DEF HasFiles
      <4>2. CASE Current(session[s]) /\ q.index.champion = session[s].index.champion
        BY <1>1, <3>1, <4>2 DEF HasFiles
      <4> QED
        BY <3>2, <4>1, <4>2
    <3> QED
      BY <1>3, <1>5, <2>2, <3>2
  <2> QED
    BY <2>1, <2>2
<1> QED
  BY <1>4, <1>6 DEF ServeOK, HasFiles, Current

LEMMA RanksMoves ==
    ASSUME TypeOKRegistry, SoundOK, RanksOK, NEW s \in Sessions, NEW q \in SessionState, Alone(s, q),
           conflict' = conflict, disk' = disk, crashed => crashed',
           session[s].pc # "point", q.pc # "point",
           ~conflict /\ ~crashed' /\ Current(q) => Between(Sessions \ {s}) \/ Ranks(q)
    PROVE  RanksOK'
<1> SUFFICES ASSUME ~conflict, ~crashed' PROVE RanksOK'
  BY DEF RanksOK
<1>1. /\ ~disk.torn
      /\ \A m, n \in Champions(disk) : m = n
      /\ Between(Sessions) \/ Champions(disk) \subseteq {disk.champion}
      /\ \A t \in Sessions : Current(session[t]) => Between(Sessions \ {t}) \/ Ranks(session[t])
  BY DEF RanksOK
<1>2. \A t \in Sessions : t # s =>
        /\ session'[t].pc = session[t].pc /\ session'[t].model = session[t].model
        /\ session'[t].index = session[t].index /\ session'[t].fresh = session[t].fresh
  BY DEF Alone, Moves
<1>3. session'[s] = q
  BY DEF Alone, Moves
<1>4. \A t \in Sessions : session'[t].pc = "point" <=> session[t].pc = "point"
  BY <1>2, <1>3
<1>5. /\ Between(Sessions)' <=> Between(Sessions)
      /\ \A t \in Sessions : Between(Sessions \ {t})' <=> Between(Sessions \ {t})
  BY <1>4 DEF Between
<1>6. Champions(disk)' = Champions(disk)
  BY DEF Champions
<1>7. ASSUME NEW t \in Sessions, Current(session'[t])
      PROVE  Between(Sessions \ {t})' \/ Ranks(session'[t])
  <2>1. CASE t = s
    BY <1>3, <1>5, <1>7, <2>1
  <2>2. CASE t # s
    <3>1. Current(session[t]) /\ (Ranks(session[t]) => Ranks(session'[t]))
      BY <1>2, <1>7, <2>2 DEF Current, Ranks, Champions
    <3> QED
      BY <1>1, <1>5, <3>1
  <2> QED
    BY <2>1, <2>2
<1>8. \A t \in Sessions : /\ Current(session[t])' <=> Current(session'[t])
                          /\ Ranks(session[t])' <=> Ranks(session'[t])
  BY DEF Current, Ranks, Champions
<1> QED
  BY <1>1, <1>5, <1>6, <1>7, <1>8 DEF RanksOK

\* A copy is saved: if it is not out of date and nobody else is at work, the index on
\* the disk is as good as the copy.
LEMMA ServeSaves ==
    ASSUME TypeOKRegistry, SoundOK, ServeOK, NEW s \in Sessions, NEW q \in SessionState, Outdating(s, q),
           Busy(s), Sound(q), conflict' = (conflict \/ Conflicts(s)), disk' = q.index, meta' = meta,
           \/ q.index.champion = session[s].index.champion
           \/ session[s].pc = "point" /\ q.index.champion = session[s].model,
           q.pc \in {"saveNew", "point"} => session[s].pc \in {"saveNew", "point"} /\ q.model = session[s].model
    PROVE  ServeOK'
<1> SUFFICES ASSUME ~conflict, ~Conflicts(s) PROVE ServeOK'
  BY DEF ServeOK
<1>1. Current(session[s])
  BY DEF Conflicts, Current, Busy
<1>2. /\ HasFiles(session[s].index)
      /\ session[s].pc \in {"saveNew", "point"} => meta[session[s].model] # "absent"
  BY <1>1 DEF ServeOK
<1>3. HasFiles(q.index)
  BY <1>2 DEF HasFiles
<1>4. session'[s] = q
  BY DEF Outdating, Moves
<1>5. \A t \in Sessions : t # s => ~session'[t].fresh /\ ~Busy(t) /\ session'[t].pc = session[t].pc
  BY DEF Outdating, Moves, Conflicts
<1>6. ASSUME NEW t \in Sessions
      PROVE  /\ Current(session'[t]) =>
                  /\ session'[t].index.champion # NoModel =>
                       meta'[session'[t].index.champion] # "absent"
                  /\ ~disk'.torn => session'[t].index.champion = disk'.champion
             /\ session'[t].pc \in {"saveNew", "point"} => meta'[session'[t].model] # "absent"
  <2>1. CASE t # s
    BY <1>5, <2>1 DEF Current, Busy
  <2>2. CASE t = s
    BY <1>2, <1>3, <1>4, <2>2 DEF HasFiles
  <2> QED
    BY <2>1, <2>2
<1> QED
  BY <1>3, <1>6 DEF ServeOK, HasFiles, Current

LEMMA RanksSaves ==
    ASSUME TypeOKRegistry, SoundOK, RanksOK, NEW s \in Sessions, NEW q \in SessionState, Outdating(s, q),
           Busy(s), Sound(q), conflict' = (conflict \/ Conflicts(s)), disk' = q.index, crashed' = crashed,
           q.pc # "saveNew", Ranks(session[s]) => Ranks(q)
    PROVE  RanksOK'
<1> SUFFICES ASSUME ~conflict, ~crashed, ~Conflicts(s) PROVE RanksOK'
  BY DEF RanksOK
<1>1. Current(session[s])
  BY DEF Conflicts, Current, Busy
<1>2. ~Between(Sessions \ {s})
  BY DEF Between, Conflicts, Busy
<1>3. Ranks(q)
  BY <1>1, <1>2 DEF RanksOK
<1>4. session'[s] = q
  BY DEF Outdating, Moves
<1>5. \A t \in Sessions : t # s => ~session'[t].fresh
  BY DEF Outdating
<1>6. ~disk'.torn
  BY DEF Sound
<1>7. Champions(disk)' = Champions(q.index)
  BY DEF Champions
<1>8. \A m, n \in Champions(q.index) : m = n
  BY <1>3 DEF Ranks
<1>9. Between(Sessions)' \/ Champions(q.index) \subseteq {q.index.champion}
  <2>1. CASE q.pc = "point"
    BY <1>4, <2>1 DEF Between
  <2>2. CASE q.pc # "point"
    BY <1>3, <2>2 DEF Ranks
  <2> QED
    BY <2>1, <2>2
<1>10. ASSUME NEW t \in Sessions, Current(session'[t])
       PROVE  Ranks(session'[t])
  BY <1>3, <1>4, <1>5, <1>10 DEF Current
<1>11. \A t \in Sessions : /\ Current(session[t])' <=> Current(session'[t])
                           /\ Ranks(session[t])' <=> Ranks(session'[t])
  BY DEF Current, Ranks, Champions
<1> QED
  BY <1>6, <1>7, <1>8, <1>9, <1>10, <1>11 DEF RanksOK

----------------------------------------------------------------------------
(* The steps of an operation.                                              *)

RegistryOK == TypeOKRegistry /\ SoundOK /\ NewOK /\ ServeOK /\ RanksOK

\* The models that may be champion, by status, at a step.
MayRank(pc, model, champion) ==
    CASE pc \in {"saveOld", "new"}   -> {}
      [] pc \in {"saveNew", "point"} -> {model}
      [] OTHER                       -> {champion}

LEMMA RanksFacts ==
    ASSUME NEW q
    PROVE  Ranks(q) <=> Champions(q.index) \subseteq MayRank(q.pc, q.model, q.index.champion)
  BY DEF Ranks, MayRank

LEMMA StepFacts ==
    ASSUME NEW q \in SessionState, NEW next \in {"ready", "new", "point", "describe"}
    PROVE  /\ Step(q, next) \in SessionState
           /\ Step(q, next).pc = next /\ Step(q, next).index = q.index
           /\ Step(q, next).fresh = q.fresh
           /\ next # "ready" => Step(q, next).model = q.model
  BY DEF Step, SessionState

LEMMA SaveStep ==
    ASSUME RegistryOK, NEW s \in Sessions, NEW index \in Index, NEW next \in {"ready", "new", "point"},
           SaveIndex(s, index, next), meta' = meta, Working(session[s]),
           ~index.torn, ChampionListed(index),
           \A m \in Models : index.models[m] # "absent" => session[s].index.models[m] # "absent",
           next # "ready" => index = session[s].index,
           next = "point" => session[s].pc = "saveNew",
           \/ index.champion = session[s].index.champion
           \/ session[s].pc = "point" /\ index.champion = session[s].model,
           Ranks(session[s]) => Champions(index) \subseteq MayRank(next, session[s].model, index.champion)
    PROVE  RegistryOK'
<1> DEFINE q == Step([session[s] EXCEPT !.index = index], next)
<1>1. session[s] \in SessionState
  BY DEF RegistryOK, TypeOKRegistry
<1>2. /\ q \in SessionState /\ q.pc = next /\ q.index = index /\ q.fresh = session[s].fresh
      /\ next # "ready" => q.model = session[s].model
  <2> DEFINE p == [session[s] EXCEPT !.index = index]
  <2>1. p \in SessionState /\ p.index = index /\ p.fresh = session[s].fresh /\ p.model = session[s].model
    BY <1>1 DEF SessionState
  <2> HIDE DEF p
  <2>2. /\ Step(p, next) \in SessionState /\ Step(p, next).pc = next /\ Step(p, next).index = index
        /\ Step(p, next).fresh = session[s].fresh
        /\ next # "ready" => Step(p, next).model = session[s].model
    BY <2>1, StepFacts
  <2> QED
    BY <2>2 DEF p
<1>3. /\ disk' = index /\ session' = Outdate([session EXCEPT ![s] = q], s)
      /\ conflict' = (conflict \/ Conflicts(s)) /\ used' = used /\ crashed' = crashed
  BY DEF SaveIndex
<1> HIDE DEF q
<1>4. Outdating(s, q) /\ Moves(s, q)
  BY <1>2, <1>3, MoveFacts DEF RegistryOK, Outdating
<1>5. Busy(s)
  BY DEF Working, Busy
<1>6. Sound(session[s])
  BY DEF RegistryOK, SoundOK
<1>7. Sound(q)
  <2>1. next \in {"new", "point"} => Working(q) /\ Working(session[s]) /\ q.index = session[s].index
    BY <1>2 DEF Working
  <2> QED
    BY <1>2, <1>6, <2>1 DEF Sound, Working, Registering
<1>8. SoundOK'
  BY <1>2, <1>3, <1>4, <1>7, SoundMoves DEF RegistryOK
<1>9. NewOK'
  <2>1. NoModel \notin Models /\ ~Registering(q)
    BY <1>2, RegistryAssumption DEF Registering
  <2> QED
    BY <1>2, <1>3, <1>4, <2>1, NewMoves DEF RegistryOK
<1>10. ServeOK'
  <2>1. q.pc \in {"saveNew", "point"} => session[s].pc \in {"saveNew", "point"} /\ q.model = session[s].model
    BY <1>2
  <2> QED
    BY <1>2, <1>3, <1>4, <1>5, <1>7, <2>1, ServeSaves DEF RegistryOK
<1>11. RanksOK'
  <2>1. Ranks(session[s]) => Ranks(q)
    <3>1. MayRank(next, session[s].model, index.champion) = MayRank(q.pc, q.model, q.index.champion)
      BY <1>2 DEF MayRank
    <3> QED
      BY <1>2, <3>1, RanksFacts
  <2> QED
    BY <1>2, <1>3, <1>4, <1>5, <1>7, <2>1, RanksSaves DEF RegistryOK
<1>12. TypeOKRegistry'
  <2>1. conflict' \in BOOLEAN
    BY <1>3 DEF RegistryOK, TypeOKRegistry
  <2> QED
    BY <1>3, <1>4, <2>1 DEF RegistryOK, TypeOKRegistry, Moves
<1> QED
  BY <1>8, <1>9, <1>10, <1>11, <1>12 DEF RegistryOK

LEMMA Saves ==
    ASSUME RegistryOK, NEW s \in Sessions,
           Save(s) \/ SaveOld(s) \/ SaveNew(s) \/ Point(s, session[s].model) \/ Forget(s, session[s].model)
    PROVE  RegistryOK'
<1> DEFINE q == session[s]
<1>1. q \in SessionState /\ q.index \in Index /\ Sound(q)
  BY DEF RegistryOK, TypeOKRegistry, SessionState, SoundOK
<1>2. /\ ~q.index.torn /\ ChampionListed(q.index)
      /\ Working(q) => q.model \in Models /\ q.index.models[q.model] # "absent"
      /\ q.pc = "forget" => q.model # q.index.champion
  BY <1>1 DEF Sound
<1>3. Ranks(q) => Champions(q.index) \subseteq MayRank(q.pc, q.model, q.index.champion)
  BY RanksFacts
<1> HIDE DEF q
<1>4. CASE Save(s) \/ SaveOld(s) \/ SaveNew(s)
  <2>1. PICK next \in {"ready", "new", "point"} :
          /\ SaveIndex(s, q.index, next) /\ meta' = meta
          /\ \/ q.pc = "save" /\ next = "ready"
             \/ q.pc = "saveOld" /\ next = "new"
             \/ q.pc = "saveNew" /\ next = "point"
    BY <1>4 DEF Save, SaveOld, SaveNew, At, q
  <2>2. Working(q)
    BY <2>1 DEF Working
  <2>3. Ranks(q) => Champions(q.index) \subseteq MayRank(next, q.model, q.index.champion)
    BY <1>3, <2>1 DEF MayRank
  <2> QED
    BY <1>1, <1>2, <2>1, <2>2, <2>3, SaveStep DEF q
<1>5. CASE Point(s, q.model)
  <2> DEFINE index == [q.index EXCEPT !.champion = q.model]
  <2>1. SaveIndex(s, index, "ready") /\ meta' = meta /\ q.pc = "point"
    BY <1>5 DEF Point, At, q
  <2>2. Working(q) /\ q.model \in Models /\ q.index.models[q.model] # "absent"
    BY <1>2, <2>1 DEF Working
  <2>3. index \in Index /\ index.torn = q.index.torn /\ index.models = q.index.models /\ index.champion = q.model
    BY <1>1, <2>2 DEF Index
  <2> HIDE DEF index
  <2>4. ChampionListed(index) /\ Champions(index) = Champions(q.index)
    BY <2>2, <2>3 DEF ChampionListed, Champions
  <2>5. Ranks(q) => Champions(index) \subseteq MayRank("ready", q.model, index.champion)
    BY <1>3, <2>1, <2>3, <2>4 DEF MayRank
  <2> QED
    BY <1>1, <1>2, <2>1, <2>2, <2>3, <2>4, <2>5, SaveStep DEF q
<1>6. CASE Forget(s, q.model)
  <2> DEFINE index == Entered(q.index, q.model, "absent")
  <2>1. SaveIndex(s, index, "ready") /\ meta' = meta /\ q.pc = "forget"
    BY <1>6 DEF Forget, Forgotten, At, q
  <2>2. Working(q) /\ q.model \in Models /\ q.model # q.index.champion
    BY <1>2, <2>1 DEF Working
  <2>3. /\ index \in Index /\ index.torn = q.index.torn /\ index.champion = q.index.champion
        /\ index.models[q.model] = "absent"
        /\ \A n \in Models : n # q.model => index.models[n] = q.index.models[n]
    BY <1>1, <2>2, EnteredFacts
  <2> HIDE DEF index
  <2>4. q.index.champion # NoModel => q.index.champion \in Models
    BY <1>1 DEF Index
  <2>5. ChampionListed(index) /\ Champions(index) \subseteq Champions(q.index)
    BY <1>2, <2>2, <2>3, <2>4 DEF ChampionListed, Champions
  <2>6. Ranks(q) => Champions(index) \subseteq MayRank("ready", q.model, index.champion)
    BY <1>3, <2>1, <2>3, <2>5 DEF MayRank
  <2>7. \A m \in Models : index.models[m] # "absent" => q.index.models[m] # "absent"
    BY <2>3
  <2> QED
    BY <1>1, <1>2, <2>1, <2>2, <2>3, <2>5, <2>6, <2>7, SaveStep DEF q
<1> QED
  BY <1>4, <1>5, <1>6 DEF q

\* metadata.json of m is written and m entered into the copy: m is a model that the
\* copy lists, or the one that the process registers.
LEMMA WriteStep ==
    ASSUME RegistryOK, NEW s \in Sessions, NEW m \in Models, NEW status \in Statuses,
           NEW next \in {"save", "saveOld", "saveNew"}, WriteMetadata(s, m, status, next),
           \/ Working(session[s]) /\ session[s].index.models[m] # "absent"
           \/ session[s].pc = "describe" /\ m = session[s].model,
           session[s].pc # "point", next = "saveNew" => m = session[s].model,
           Ranks(session[s]) =>
               Champions(Entered(session[s].index, m, status))
                   \subseteq MayRank(next, session[s].model, session[s].index.champion)
    PROVE  RegistryOK'
<1> DEFINE p == session[s]
           index == Entered(p.index, m, status)
           q == [p EXCEPT !.index = index, !.pc = next]
<1>1. p \in SessionState /\ p.index \in Index /\ Sound(p)
  BY DEF RegistryOK, TypeOKRegistry, SessionState, SoundOK
<1>2. /\ index \in Index /\ index.torn = p.index.torn /\ index.champion = p.index.champion
      /\ index.models[m] = status
      /\ \A n \in Models : n # m => index.models[n] = p.index.models[n]
  BY <1>1, EnteredFacts
<1>3. /\ meta' = [meta EXCEPT ![m] = status] /\ session' = [session EXCEPT ![s] = q]
      /\ UNCHANGED <<disk, used, conflict, crashed>>
  BY DEF WriteMetadata
<1>4. Ranks(p) => Champions(index) \subseteq MayRank(next, p.model, p.index.champion)
  OBVIOUS
<1>5. /\ \/ Working(p) /\ p.index.models[m] # "absent"
         \/ p.pc = "describe" /\ m = p.model
      /\ p.pc # "point" /\ (next = "saveNew" => m = p.model)
  OBVIOUS
<1> HIDE DEF index
<1>6. /\ q \in SessionState /\ q.pc = next /\ q.index = index /\ q.fresh = p.fresh
      /\ q.model = p.model
  BY <1>1, <1>2 DEF SessionState
<1> HIDE DEF q
<1>7. Alone(s, q) /\ Moves(s, q)
  BY <1>3, <1>6, MoveFacts DEF RegistryOK, Alone
<1>8. /\ meta' \in [Models -> Statuses \cup {"absent", "files", "torn"}]
      /\ meta'[m] = status /\ status \notin {"absent", "files", "torn"}
      /\ \A n \in Models : n # m => meta'[n] = meta[n]
  BY <1>3 DEF RegistryOK, TypeOKRegistry, Statuses
<1>9. TypeOKRegistry'
  BY <1>3, <1>7, <1>8 DEF RegistryOK, TypeOKRegistry, Moves
<1>10. Sound(q)
  <2>1. ~index.torn /\ ChampionListed(index)
    <3>1. ~p.index.torn /\ ChampionListed(p.index) /\ (p.index.champion # NoModel => p.index.champion \in Models)
      BY <1>1 DEF Sound, Index
    <3> QED
      BY <1>2, <1>8, <3>1 DEF ChampionListed
  <2>2. q.pc # "closed" /\ q.pc # "forget" /\ ~Registering(q) /\ Working(q)
    BY <1>6 DEF Registering, Working
  <2>3. p.model \in Models
    BY <1>1, <1>5 DEF Sound, Registering
  <2>4. index.models[p.model] # "absent"
    BY <1>1, <1>2, <1>5, <1>8, <2>3 DEF Sound
  <2> QED
    BY <1>6, <2>1, <2>2, <2>3, <2>4 DEF Sound
<1>11. SoundOK'
  BY <1>3, <1>6, <1>7, <1>10, SoundMoves DEF RegistryOK
<1>12. ~Registering(q)
  BY <1>6 DEF Registering
<1>13. NewOK'
  <2>1. CASE p.index.models[m] # "absent"
    <3>1. /\ NoModel \notin Models
          /\ \A n \in Models :
               /\ q.index.models[n] # "absent" => p.index.models[n] # "absent"
               /\ meta'[n] = "files" => meta[n] = "files"
               /\ meta'[n] = "torn" => meta[n] = "torn"
      BY <1>2, <1>6, <1>8, <2>1, RegistryAssumption
    <3> QED
      BY <1>3, <1>6, <1>7, <1>12, <3>1, NewMoves DEF RegistryOK
  <2>2. CASE p.pc = "describe" /\ m = p.model
    <3>1. /\ m \in used
          /\ \A t \in Sessions : t # s /\ Registering(session[t]) => session[t].model # m
      BY <2>2 DEF RegistryOK, NewOK, Registering
    <3>2. \A n \in Models :
            /\ n # m => (q.index.models[n] # "absent" => p.index.models[n] # "absent")
            /\ n # m => (meta'[n] = "files" => meta[n] = "files")
            /\ meta'[n] = "torn" => meta[n] = "torn"
      BY <1>2, <1>6, <1>8
    <3> QED
      BY <1>3, <1>6, <1>7, <1>8, <1>12, <3>1, <3>2, NewMoves DEF RegistryOK
  <2> QED
    BY <1>5, <2>1, <2>2
<1>14. ServeOK'
  <2>1. \A n \in Models : meta[n] # "absent" => meta'[n] # "absent"
    BY <1>8
  <2>2. q.pc \in {"saveNew", "point"} => meta'[q.model] # "absent"
    BY <1>5, <1>6, <1>8
  <2>3. Current(q) => Current(p) /\ q.index.champion = p.index.champion
    BY <1>2, <1>5, <1>6 DEF Current, Working
  <2> QED
    BY <1>3, <1>6, <1>7, <1>10, <2>1, <2>2, <2>3, ServeMoves DEF RegistryOK
<1>15. RanksOK'
  <2>1. ASSUME ~conflict, ~crashed, Current(q)
        PROVE  Between(Sessions \ {s}) \/ Ranks(q)
    <3>1. Current(p)
      BY <1>5, <1>6, <2>1 DEF Current, Working
    <3>2. Between(Sessions \ {s}) \/ Ranks(p)
      BY <2>1, <3>1 DEF RegistryOK, RanksOK
    <3>3. MayRank(q.pc, q.model, q.index.champion) = MayRank(next, p.model, p.index.champion)
      BY <1>2, <1>6 DEF MayRank
    <3> QED
      BY <1>4, <1>6, <3>2, <3>3, RanksFacts
  <2>2. q.pc # "point"
    BY <1>6
  <2> QED
    BY <1>3, <1>5, <1>6, <1>7, <2>1, <2>2, RanksMoves DEF RegistryOK
<1> QED
  BY <1>9, <1>11, <1>13, <1>14, <1>15 DEF RegistryOK

\* A step that only moves the process on: nothing of the registry's files changes,
\* but for a directory that is filled.
LEMMA QuietStep ==
    ASSUME RegistryOK, NEW s \in Sessions, NEW q \in SessionState,
           session' = [session EXCEPT ![s] = q], Sound(q),
           disk' = disk, conflict' = conflict,
           meta' \in [Models -> Statuses \cup {"absent", "files", "torn"}],
           \A m \in Models :
               /\ meta[m] # "absent" => meta'[m] # "absent"
               /\ meta'[m] = "files" => meta[m] = "files" \/ Unlisted(m)
               /\ meta'[m] = "torn" => meta[m] = "torn" \/ crashed',
           used' \in SUBSET Models, used \subseteq used',
           crashed' \in BOOLEAN, crashed => crashed',
           q.index \in {EmptyIndex, disk, session[s].index},
           Current(q) => q.index = disk \/ (Current(session[s]) /\ q.index = session[s].index),
           q.pc \notin {"saveNew", "point"},
           session[s].pc # "point" \/ crashed',
           ~conflict /\ ~crashed' /\ Current(q) => Between(Sessions \ {s}) \/ Ranks(q),
           Registering(q) =>
               /\ q.model \in used' /\ q.model \in Models /\ Unlisted(q.model)
               /\ \A t \in Sessions : t # s /\ Registering(session[t]) => session[t].model # q.model
    PROVE  RegistryOK'
<1>1. Alone(s, q) /\ Moves(s, q)
  BY MoveFacts DEF RegistryOK, Alone
<1>2. TypeOKRegistry'
  BY <1>1 DEF RegistryOK, TypeOKRegistry, Moves
<1>3. SoundOK'
  BY <1>1, SoundMoves DEF RegistryOK
<1>4. NewOK'
  <2>1. NoModel \notin Models /\ (q.model \in Models => q.model # NoModel)
    BY RegistryAssumption
  <2>2. \A m \in Models : q.index.models[m] # "absent" =>
          session[s].index.models[m] # "absent" \/ disk.models[m] # "absent"
    BY EmptyFacts
  <2> QED
    BY <1>1, <2>1, <2>2, NewMoves DEF RegistryOK
<1>5. ServeOK'
  BY <1>1, ServeMoves DEF RegistryOK
<1>6. RanksOK'
  <2>1. CASE crashed'
    BY <2>1 DEF RanksOK
  <2>2. CASE ~crashed'
    BY <1>1, <2>2, RanksMoves DEF RegistryOK
  <2> QED
    BY <2>1, <2>2
<1> QED
  BY <1>2, <1>3, <1>4, <1>5, <1>6 DEF RegistryOK

LEMMA EnteredChampions ==
    ASSUME NEW index \in Index, NEW m \in Models, NEW status \in Statuses
    PROVE  Champions(Entered(index, m, status)) =
               IF status = "champion" THEN Champions(index) \cup {m} ELSE Champions(index) \ {m}
<1> DEFINE e == Entered(index, m, status)
<1>1. e.models[m] = status /\ \A n \in Models : n # m => e.models[n] = index.models[n]
  BY EnteredFacts
<1> HIDE DEF e
<1>2. Champions(e) = IF status = "champion" THEN Champions(index) \cup {m} ELSE Champions(index) \ {m}
  BY <1>1 DEF Champions
<1> QED
  BY <1>2 DEF e

\* What is known of a process and of the model it works on.
LEMMA ProcessFacts ==
    ASSUME RegistryOK, NEW s \in Sessions
    PROVE  /\ session[s] \in SessionState /\ session[s].index \in Index /\ Sound(session[s])
           /\ session[s].index.champion \in Models \cup {NoModel}
           /\ ~session[s].index.torn /\ ChampionListed(session[s].index)
           /\ Working(session[s]) =>
                session[s].model \in Models /\ session[s].index.models[session[s].model] # "absent"
           /\ Registering(session[s]) => session[s].model \in Models
           /\ Ranks(session[s]) =>
                Champions(session[s].index)
                    \subseteq MayRank(session[s].pc, session[s].model, session[s].index.champion)
  BY RanksFacts DEF RegistryOK, TypeOKRegistry, SessionState, Index, SoundOK, Sound

LEMMA Writes ==
    ASSUME RegistryOK, NEW s \in Sessions, NEW m, NEW status, NEW next,
           WriteMetadata(s, m, status, next),
           \/ session[s].pc = "describe" /\ m = session[s].model /\ status = "candidate" /\ next = "save"
           \/ session[s].pc = "archive" /\ m = session[s].model /\ status = "archived" /\ next = "save"
           \/ session[s].pc = "new" /\ m = session[s].model /\ status = "champion" /\ next = "saveNew"
           \/ session[s].pc = "old" /\ m = session[s].index.champion /\ m # NoModel
                /\ status = "archived" /\ next = "saveOld"
    PROVE  RegistryOK'
<1> DEFINE p == session[s]
<1>1. /\ p \in SessionState /\ p.index \in Index /\ ChampionListed(p.index)
      /\ p.index.champion \in Models \cup {NoModel}
      /\ Working(p) => p.model \in Models /\ p.index.models[p.model] # "absent"
      /\ Registering(p) => p.model \in Models
      /\ Ranks(p) => Champions(p.index) \subseteq MayRank(p.pc, p.model, p.index.champion)
  BY ProcessFacts
<1>2. \/ p.pc = "describe" /\ m = p.model /\ status = "candidate" /\ next = "save"
      \/ p.pc = "archive" /\ m = p.model /\ status = "archived" /\ next = "save"
      \/ p.pc = "new" /\ m = p.model /\ status = "champion" /\ next = "saveNew"
      \/ p.pc = "old" /\ m = p.index.champion /\ m # NoModel /\ status = "archived" /\ next = "saveOld"
  OBVIOUS
<1> HIDE DEF p
<1>3. m \in Models /\ status \in Statuses /\ next \in {"save", "saveOld", "saveNew"}
  BY <1>1, <1>2 DEF Working, Registering, Statuses
<1>4. \/ Working(p) /\ p.index.models[m] # "absent"
      \/ p.pc = "describe" /\ m = p.model
  BY <1>1, <1>2 DEF Working, ChampionListed
<1>5. Champions(Entered(p.index, m, status)) =
        IF status = "champion" THEN Champions(p.index) \cup {m} ELSE Champions(p.index) \ {m}
  BY <1>1, <1>3, EnteredChampions
<1>6. ASSUME Ranks(p)
      PROVE  Champions(Entered(p.index, m, status)) \subseteq MayRank(next, p.model, p.index.champion)
  <2>1. Champions(p.index) \subseteq MayRank(p.pc, p.model, p.index.champion)
    BY <1>1, <1>6
  <2> QED
    BY <1>2, <1>5, <2>1 DEF MayRank
<1>7. p.pc # "point" /\ (next = "saveNew" => m = p.model)
  BY <1>2
<1> QED
  BY <1>3, <1>4, <1>6, <1>7, WriteStep DEF p

\* An operation returns, or finds nothing to archive.
LEMMA GotoStep ==
    ASSUME RegistryOK, NEW s \in Sessions, NEW next,
           Goto(s, next), UNCHANGED <<meta, disk, used, conflict, crashed>>,
           \/ session[s].pc \in {"new", "archive", "delete"} /\ next = "ready"
           \/ session[s].pc = "old" /\ next = "ready"
           \/ session[s].pc = "old" /\ next = "new"
                /\ (~conflict /\ ~crashed /\ session[s].fresh => session[s].index.champion = NoModel)
    PROVE  RegistryOK'
<1> DEFINE p == session[s]
           q == Step(p, next)
<1>1. /\ p \in SessionState /\ p.index \in Index /\ Sound(p)
      /\ Working(p) => p.model \in Models /\ p.index.models[p.model] # "absent"
      /\ Ranks(p) => Champions(p.index) \subseteq MayRank(p.pc, p.model, p.index.champion)
  BY ProcessFacts
<1>2. next \in {"ready", "new"} /\ p.pc \in {"new", "archive", "delete", "old"}
  OBVIOUS
<1>3. /\ q \in SessionState /\ q.pc = next /\ q.index = p.index /\ q.fresh = p.fresh
      /\ next # "ready" => q.model = p.model
  BY <1>1, <1>2, StepFacts
<1>4. session' = [session EXCEPT ![s] = q]
  BY DEF Goto
<1>5. \/ next = "ready"
      \/ p.pc = "old" /\ next = "new" /\ (~conflict /\ ~crashed /\ p.fresh => p.index.champion = NoModel)
  OBVIOUS
<1> HIDE DEF q
<1>6. Sound(q)
  BY <1>1, <1>2, <1>3 DEF Sound, Working, Registering
<1>7. ASSUME ~conflict, ~crashed, Current(q)
      PROVE  Between(Sessions \ {s}) \/ Ranks(q)
  <2>1. Current(p) /\ p.fresh
    BY <1>2, <1>3, <1>7 DEF Current
  <2>2. Between(Sessions \ {s}) \/ Ranks(p)
    BY <1>7, <2>1 DEF RegistryOK, RanksOK
  <2>3. ASSUME Ranks(p) PROVE Ranks(q)
    <3>1. Champions(p.index) \subseteq MayRank(p.pc, p.model, p.index.champion)
      BY <1>1, <2>3
    <3>2. Champions(p.index) \subseteq Models /\ NoModel \notin Models
      BY RegistryAssumption DEF Champions
    <3>3. Champions(p.index) \subseteq MayRank(next, q.model, p.index.champion)
      BY <1>2, <1>5, <1>7, <2>1, <3>1, <3>2 DEF MayRank
    <3> QED
      BY <1>3, <3>3, RanksFacts
  <2> QED
    BY <2>2, <2>3
<1>8. Current(q) => Current(p) /\ q.index = p.index
  BY <1>2, <1>3 DEF Current
<1>9. q.pc \notin {"saveNew", "point"} /\ p.pc # "point" /\ ~Registering(q)
  BY <1>2, <1>3 DEF Registering
<1>10. /\ meta' \in [Models -> Statuses \cup {"absent", "files", "torn"}]
       /\ used' \in SUBSET Models /\ crashed' \in BOOLEAN
  BY DEF RegistryOK, TypeOKRegistry
<1> HIDE DEF p
<1> QED
  BY <1>3, <1>4, <1>6, <1>7, <1>8, <1>9, <1>10, QuietStep DEF p

\* ArchiveOld does not pass over a champion, unless a process died or two were at it.
LEMMA ChampionReadable ==
    ASSUME RegistryOK, NEW s \in Sessions, ~conflict, ~crashed, Current(session[s]),
           session[s].index.champion # NoModel
    PROVE  Readable(session[s].index.champion) /\ Known(s, session[s].index.champion)
<1> DEFINE old == session[s].index.champion
<1>1. old \in Models /\ session[s].index.models[old] # "absent"
  BY ProcessFacts DEF ChampionListed
<1>2. meta[old] # "absent"
  BY DEF RegistryOK, ServeOK, HasFiles
<1>3. meta[old] # "files"
  BY <1>1 DEF RegistryOK, NewOK, Unlisted
<1>4. meta[old] # "torn"
  BY <1>1 DEF RegistryOK, NewOK
<1>5. meta[old] \in Statuses \cup {"absent", "files", "torn"}
  BY <1>1 DEF RegistryOK, TypeOKRegistry
<1> QED
  BY <1>1, <1>2, <1>3, <1>4, <1>5 DEF Readable, Known

LEMMA PromotionSteps ==
    ASSUME RegistryOK, NEW s \in Sessions, NEW m, m = session[s].model,
           Describe(s, m) \/ ArchiveOld(s) \/ PromoteNew(s, m) \/ ArchiveModel(s, m)
    PROVE  RegistryOK'
<1>1. CASE Describe(s, m)
  BY <1>1, Writes DEF Describe, At
<1>2. CASE PromoteNew(s, m)
  BY <1>2, Writes, GotoStep DEF PromoteNew, At
<1>3. CASE ArchiveModel(s, m)
  BY <1>3, Writes, GotoStep DEF ArchiveModel, At
<1>4. CASE ArchiveOld(s)
  <2> DEFINE old == session[s].index.champion
             written == old # NoModel /\ Readable(old) /\ Known(s, old)
  <2>1. session[s].pc = "old"
    BY <1>4 DEF ArchiveOld, At
  <2>2. CASE written
    <3>1. WriteMetadata(s, old, "archived", "saveOld")
      BY <1>4, <2>2 DEF ArchiveOld
    <3> QED
      BY <2>1, <2>2, <3>1, Writes
  <2>3. CASE ~written
    <3>1. /\ Goto(s, IF old # NoModel /\ meta[old] = "torn" THEN "ready" ELSE "new")
          /\ UNCHANGED <<meta, disk, used, conflict, crashed>>
      BY <1>4, <2>3 DEF ArchiveOld
    <3>2. ~conflict /\ ~crashed /\ session[s].fresh => old = NoModel
      BY <2>1, <2>3, ChampionReadable DEF Current
    <3> QED
      BY <2>1, <3>1, <3>2, GotoStep
  <2> QED
    BY <2>2, <2>3
<1> QED
  BY <1>1, <1>2, <1>3, <1>4

LEMMA CallStep ==
    ASSUME RegistryOK, NEW s \in Sessions, NEW m \in Models, NEW first,
           Call(s, m, first),
           \/ first = "copy" /\ m \notin used /\ used' = used \cup {m}
           \/ first \in {"old", "archive", "delete"} /\ Known(s, m) /\ used' = used
    PROVE  RegistryOK'
<1> DEFINE p == session[s]
           q == [p EXCEPT !.model = m, !.pc = first]
<1>1. /\ p \in SessionState /\ p.index \in Index /\ Sound(p)
      /\ Ranks(p) => Champions(p.index) \subseteq MayRank(p.pc, p.model, p.index.champion)
  BY ProcessFacts
<1>2. /\ p.pc = "ready" /\ session' = [session EXCEPT ![s] = q]
      /\ UNCHANGED <<meta, disk, conflict, crashed>>
  BY DEF Call, At
<1>3. /\ q \in SessionState /\ q.pc = first /\ q.model = m
      /\ q.index = p.index /\ q.fresh = p.fresh
  BY <1>1 DEF SessionState
<1>4. \/ first = "copy" /\ m \notin used /\ used' = used \cup {m}
      \/ first \in {"old", "archive", "delete"} /\ p.index.models[m] # "absent" /\ used' = used
  BY DEF Known
<1> HIDE DEF q
<1>5. Sound(q)
  BY <1>1, <1>3, <1>4 DEF Sound, Working, Registering
<1>6. ASSUME ~conflict, ~crashed, Current(q)
      PROVE  Between(Sessions \ {s}) \/ Ranks(q)
  <2>1. Between(Sessions \ {s}) \/ Ranks(p)
    BY <1>2, <1>3, <1>6 DEF RegistryOK, RanksOK, Current
  <2>2. MayRank(q.pc, q.model, q.index.champion) = MayRank(p.pc, p.model, p.index.champion)
    BY <1>2, <1>3, <1>4 DEF MayRank
  <2> QED
    BY <1>1, <1>3, <2>1, <2>2, RanksFacts
<1>7. Registering(q) =>
        /\ q.model \in used' /\ Unlisted(q.model)
        /\ \A t \in Sessions : t # s /\ Registering(session[t]) => session[t].model # q.model
  BY <1>3, <1>4 DEF Registering, RegistryOK, NewOK
<1>8. Current(q) => Current(p)
  BY <1>2, <1>3 DEF Current
<1>9. q.pc \notin {"saveNew", "point"} /\ p.pc # "point"
  BY <1>2, <1>3, <1>4
<1>10. /\ meta' \in [Models -> Statuses \cup {"absent", "files", "torn"}]
       /\ used' \in SUBSET Models /\ used \subseteq used' /\ crashed' \in BOOLEAN
  BY <1>2, <1>4 DEF RegistryOK, TypeOKRegistry
<1> HIDE DEF p
<1> QED
  BY <1>2, <1>3, <1>5, <1>6, <1>7, <1>8, <1>9, <1>10, QuietStep DEF p

LEMMA OpenStep ==
    ASSUME RegistryOK, NEW s \in Sessions, Open(s)
    PROVE  RegistryOK'
<1> DEFINE q == [Closed EXCEPT !.pc = "ready", !.index = disk]
<1>1. /\ session[s].pc = "closed" /\ ~disk.torn /\ session' = [session EXCEPT ![s] = q]
      /\ UNCHANGED <<meta, disk, used, conflict, crashed>>
  BY DEF Open, At
<1>2. disk \in Index /\ ChampionListed(disk)
  BY DEF RegistryOK, TypeOKRegistry, SoundOK
<1>3. q \in SessionState /\ q.pc = "ready" /\ q.index = disk
  BY <1>2 DEF Closed, SessionState
<1> HIDE DEF q
<1>4. Sound(q)
  BY <1>1, <1>2, <1>3 DEF Sound, Working, Registering
<1>5. ASSUME ~conflict, ~crashed
      PROVE  Between(Sessions \ {s}) \/ Ranks(q)
  <2>1. Between(Sessions) \/ Champions(disk) \subseteq {disk.champion}
    BY <1>5 DEF RegistryOK, RanksOK
  <2>2. Between(Sessions) => Between(Sessions \ {s})
    BY <1>1 DEF Between
  <2> QED
    BY <1>3, <2>1, <2>2 DEF Ranks
<1>6. ~Registering(q) /\ q.pc \notin {"saveNew", "point"}
  BY <1>3 DEF Registering
<1>7. /\ meta' \in [Models -> Statuses \cup {"absent", "files", "torn"}]
      /\ used' \in SUBSET Models /\ crashed' \in BOOLEAN
  BY <1>1 DEF RegistryOK, TypeOKRegistry
<1> QED
  BY <1>1, <1>3, <1>4, <1>5, <1>6, <1>7, QuietStep

LEMMA ClosedSound == Sound(Closed) /\ ~Registering(Closed) /\ ~Current(Closed)
  BY EmptyFacts DEF Sound, ChampionListed, Working, Registering, Current

LEMMA CloseStep ==
    ASSUME RegistryOK, NEW s \in Sessions, Close(s)
    PROVE  RegistryOK'
<1>1. /\ session[s].pc = "ready" /\ session' = [session EXCEPT ![s] = Closed]
      /\ UNCHANGED <<meta, disk, used, conflict, crashed>>
  BY DEF Close, At
<1>2. /\ meta' \in [Models -> Statuses \cup {"absent", "files", "torn"}]
      /\ used' \in SUBSET Models /\ crashed' \in BOOLEAN
  BY <1>1 DEF RegistryOK, TypeOKRegistry
<1> QED
  BY <1>1, <1>2, EmptyFacts, ClosedSound, QuietStep

LEMMA CopyStep ==
    ASSUME RegistryOK, NEW s \in Sessions, CopyFiles(s, session[s].model)
    PROVE  RegistryOK'
<1> DEFINE p == session[s]
           q == Step(p, "describe")
           m == p.model
<1>1. /\ p \in SessionState /\ Sound(p) /\ (Registering(p) => m \in Models)
      /\ Ranks(p) => Champions(p.index) \subseteq MayRank(p.pc, p.model, p.index.champion)
  BY ProcessFacts
<1>2. /\ p.pc = "copy" /\ meta' = [meta EXCEPT ![m] = "files"]
      /\ session' = [session EXCEPT ![s] = q]
      /\ UNCHANGED <<disk, used, conflict, crashed>>
  BY DEF CopyFiles, Goto, At
<1>3. /\ q \in SessionState /\ q.pc = "describe" /\ q.model = m
      /\ q.index = p.index /\ q.fresh = p.fresh
  BY <1>1, StepFacts
<1> HIDE DEF q
<1>4. Registering(p) /\ Registering(q) /\ m \in Models
  BY <1>1, <1>2, <1>3 DEF Registering
<1>5. /\ m \in used /\ Unlisted(m)
      /\ \A t \in Sessions : t # s /\ Registering(session[t]) => session[t].model # m
  BY <1>4 DEF RegistryOK, NewOK
<1>6. /\ meta' \in [Models -> Statuses \cup {"absent", "files", "torn"}]
      /\ used' \in SUBSET Models /\ crashed' \in BOOLEAN
      /\ meta'[m] = "files" /\ \A n \in Models : n # m => meta'[n] = meta[n]
  BY <1>2, <1>4 DEF RegistryOK, TypeOKRegistry
<1>7. Sound(q)
  BY <1>1, <1>3, <1>4 DEF Sound, Working, Registering
<1>8. ASSUME ~conflict, ~crashed, Current(q)
      PROVE  Between(Sessions \ {s}) \/ Ranks(q)
  <2>1. Between(Sessions \ {s}) \/ Ranks(p)
    BY <1>2, <1>3, <1>8 DEF RegistryOK, RanksOK, Current
  <2>2. MayRank(q.pc, q.model, q.index.champion) = MayRank(p.pc, p.model, p.index.champion)
    BY <1>2, <1>3 DEF MayRank
  <2> QED
    BY <1>1, <1>3, <2>1, <2>2, RanksFacts
<1>9. Current(q) => Current(p)
  BY <1>2, <1>3 DEF Current
<1>10. \A n \in Models :
         /\ meta[n] # "absent" => meta'[n] # "absent"
         /\ meta'[n] = "files" => meta[n] = "files" \/ Unlisted(n)
         /\ meta'[n] = "torn" => meta[n] = "torn"
  BY <1>5, <1>6
<1> HIDE DEF p
<1> QED
  BY <1>2, <1>3, <1>4, <1>5, <1>6, <1>7, <1>8, <1>9, <1>10, QuietStep DEF p, m

\* delete_model never takes the files of the champion, as far as its copy is not out
\* of date.
LEMMA RemoveStep ==
    ASSUME RegistryOK, NEW s \in Sessions, RemoveFiles(s, session[s].model)
    PROVE  RegistryOK'
<1> DEFINE p == session[s]
           q == [p EXCEPT !.pc = "forget"]
           m == p.model
<1>1. p.pc = "delete" /\ UNCHANGED <<disk, used, crashed>>
  BY DEF RemoveFiles, At
<1>2. CASE ~MayDelete(s, m)
  <2>1. Goto(s, "ready") /\ UNCHANGED <<meta, conflict>>
    BY <1>2 DEF RemoveFiles
  <2> QED
    BY <1>1, <2>1, GotoStep
<1>3. CASE MayDelete(s, m)
  <2>1. /\ p \in SessionState /\ p.index \in Index /\ Sound(p) /\ m \in Models
        /\ p.index.champion \in Models \cup {NoModel}
        /\ Ranks(p) => Champions(p.index) \subseteq MayRank(p.pc, p.model, p.index.champion)
    BY <1>1, ProcessFacts DEF Working
  <2>2. /\ meta' = [meta EXCEPT ![m] = "absent"]
        /\ session' = Outdate([session EXCEPT ![s] = q], s)
        /\ conflict' = (conflict \/ Conflicts(s))
        /\ p.index.champion # m
    BY <1>3 DEF RemoveFiles, MayDelete
  <2>3. /\ q \in SessionState /\ q.pc = "forget" /\ q.model = m
        /\ q.index = p.index /\ q.fresh = p.fresh
    BY <2>1 DEF SessionState
  <2> HIDE DEF q
  <2>4. Outdating(s, q) /\ Moves(s, q)
    BY <2>2, <2>3, MoveFacts DEF RegistryOK, Outdating
  <2>5. Sound(q)
    BY <1>1, <2>1, <2>2, <2>3 DEF Sound, Working, Registering
  <2>6. SoundOK'
    BY <1>1, <2>3, <2>4, <2>5, SoundMoves DEF RegistryOK
  <2>7. /\ meta' \in [Models -> Statuses \cup {"absent", "files", "torn"}]
        /\ meta'[m] = "absent" /\ \A n \in Models : n # m => meta'[n] = meta[n]
        /\ conflict' \in BOOLEAN
    BY <2>1, <2>2 DEF RegistryOK, TypeOKRegistry
  <2>8. TypeOKRegistry'
    BY <1>1, <2>4, <2>7 DEF RegistryOK, TypeOKRegistry, Moves
  <2>9. NewOK'
    <3>1. NoModel \notin Models /\ ~Registering(q)
      BY <2>3, RegistryAssumption DEF Registering
    <3>2. \A n \in Models :
            /\ meta'[n] = "files" => meta[n] = "files"
            /\ meta'[n] = "torn" => meta[n] = "torn"
      BY <2>7
    <3> QED
      BY <1>1, <2>3, <2>4, <3>1, <3>2, NewMoves DEF RegistryOK
  <2>10. \A t \in Sessions : t # s => ~session'[t].fresh /\ session'[t].pc = session[t].pc
    BY <2>4 DEF Outdating, Moves
  <2>11. session'[s] = q
    BY <2>4 DEF Moves
  <2>12. ASSUME ~conflict' PROVE p.fresh /\ Current(p) /\ \A t \in Sessions : t # s => ~Busy(t)
    BY <1>1, <2>2, <2>12 DEF Conflicts, Current
  <2>13. ServeOK'
    <3> SUFFICES ASSUME ~conflict' PROVE ServeOK'
      BY DEF ServeOK
    <3>1. /\ HasFiles(disk) /\ HasFiles(p.index)
          /\ ~disk.torn => p.index.champion = disk.champion
      BY <2>2, <2>12 DEF RegistryOK, ServeOK
    <3>2. disk.champion # m
      BY <2>1, <2>2, <3>1, RegistryAssumption DEF RegistryOK, SoundOK
    <3>3. disk.champion \in Models \cup {NoModel}
      BY DEF RegistryOK, TypeOKRegistry, Index
    <3>4. HasFiles(disk)'
      BY <1>1, <2>7, <3>1, <3>2, <3>3 DEF HasFiles
    <3>5. q.index.champion # NoModel => meta'[q.index.champion] # "absent"
      BY <2>1, <2>2, <2>3, <2>7, <3>1 DEF HasFiles
    <3>6. ASSUME NEW t \in Sessions
          PROVE  /\ Current(session'[t]) =>
                      /\ session'[t].index.champion # NoModel =>
                           meta'[session'[t].index.champion] # "absent"
                      /\ ~disk'.torn => session'[t].index.champion = disk'.champion
                 /\ session'[t].pc \in {"saveNew", "point"} => meta'[session'[t].model] # "absent"
      <4>1. CASE t # s
        BY <2>10, <2>12, <4>1 DEF Current, Busy
      <4>2. CASE t = s
        BY <1>1, <2>3, <2>11, <3>1, <3>5, <4>2
      <4> QED
        BY <4>1, <4>2
    <3> QED
      BY <3>4, <3>6 DEF ServeOK, HasFiles, Current
  <2>14. RanksOK'
    <3> SUFFICES ASSUME ~conflict', ~crashed' PROVE RanksOK'
      BY DEF RanksOK
    <3>1. ~conflict /\ ~crashed
      BY <1>1, <2>2
    <3>2. ~Between(Sessions \ {s}) /\ ~Between(Sessions)
      BY <1>1, <2>12 DEF Between, Busy
    <3>3. /\ ~disk.torn
          /\ \A x, y \in Champions(disk) : x = y
          /\ Champions(disk) \subseteq {disk.champion}
          /\ Ranks(p)
      BY <2>12, <3>1, <3>2 DEF RegistryOK, RanksOK
    <3>4. Ranks(q)
      <4>1. MayRank(q.pc, q.model, q.index.champion) = MayRank(p.pc, p.model, p.index.champion)
        BY <1>1, <2>3 DEF MayRank
      <4> QED
        BY <2>1, <2>3, <3>3, <4>1, RanksFacts
    <3>5. Champions(disk)' = Champions(disk)
      BY <1>1 DEF Champions
    <3>6. \A t \in Sessions : Current(session'[t]) => Ranks(session'[t])
      BY <2>10, <2>11, <3>4 DEF Current
    <3>7. \A t \in Sessions : /\ Current(session[t])' <=> Current(session'[t])
                              /\ Ranks(session[t])' <=> Ranks(session'[t])
      BY DEF Current, Ranks, Champions
    <3> QED
      BY <1>1, <3>3, <3>5, <3>6, <3>7 DEF RanksOK
  <2> QED
    BY <2>6, <2>8, <2>9, <2>13, <2>14 DEF RegistryOK
<1> QED
  BY <1>2, <1>3

LEMMA CrashOfOne ==
    ASSUME RegistryOK, NEW s \in Sessions, Crash(s)
    PROVE  RegistryOK'
<1>1. /\ crashed' = TRUE /\ session' = [session EXCEPT ![s] = Closed]
      /\ UNCHANGED <<used, conflict>>
  BY DEF Crash
<1>2. \/ UNCHANGED <<meta, disk>>
      \/ \E m \in Models : meta[m] # "absent" /\ meta' = [meta EXCEPT ![m] = "torn"] /\ disk' = disk
      \/ disk' = TornIndex /\ meta' = meta
  <2>1. /\ session[s].pc \in {"describe", "new", "archive"} => session[s].model \in Models
        /\ session[s].index.champion # NoModel => session[s].index.champion \in Models
    BY ProcessFacts DEF Working, Registering
  <2>2. Readable(session[s].index.champion) => meta[session[s].index.champion] # "absent"
    BY DEF Readable, Statuses
  <2> QED
    BY <2>1, <2>2 DEF Crash, TornIndex
<1>3. used' \in SUBSET Models
  BY <1>1 DEF RegistryOK, TypeOKRegistry
<1>4. ASSUME disk' = disk, \/ meta' = meta
                           \/ \E m \in Models : meta[m] # "absent" /\ meta' = [meta EXCEPT ![m] = "torn"]
      PROVE  RegistryOK'
  <2>1. /\ meta' \in [Models -> Statuses \cup {"absent", "files", "torn"}]
        /\ \A m \in Models : /\ meta[m] # "absent" => meta'[m] # "absent"
                             /\ meta'[m] = "files" => meta[m] = "files"
    BY <1>4 DEF RegistryOK, TypeOKRegistry
  <2> QED
    BY <1>1, <1>3, <1>4, <2>1, EmptyFacts, ClosedSound, QuietStep
<1>5. CASE disk' = TornIndex /\ meta' = meta
  <2>1. Alone(s, Closed) /\ Moves(s, Closed)
    BY <1>1, EmptyFacts, MoveFacts DEF RegistryOK, Alone
  <2>2. SoundOK'
    BY <1>5, <2>1, EmptyFacts, ClosedSound, SoundMoves DEF RegistryOK
  <2>3. NoModel \notin Models
    BY RegistryAssumption
  <2>4. NewOK'
    BY <1>1, <1>5, <2>1, <2>3, EmptyFacts, ClosedSound, NewMoves DEF RegistryOK
  <2>5. ServeOK'
    BY <1>1, <1>5, <2>1, EmptyFacts, ClosedSound, ServeMoves DEF RegistryOK
  <2>6. RanksOK'
    BY <1>1 DEF RanksOK
  <2>7. TypeOKRegistry'
    BY <1>1, <1>5, <2>1, EmptyFacts DEF RegistryOK, TypeOKRegistry, Moves
  <2> QED
    BY <2>2, <2>4, <2>5, <2>6, <2>7 DEF RegistryOK
<1> QED
  BY <1>2, <1>4, <1>5

LEMMA RegistryStays ==
    ASSUME RegistryOK, UNCHANGED registry
    PROVE  RegistryOK'
<1>1. UNCHANGED <<meta, disk, session, used, conflict, crashed>>
  BY DEF registry
<1>2. TypeOKRegistry'
  BY <1>1 DEF RegistryOK, TypeOKRegistry
<1>3. SoundOK'
  BY <1>1 DEF RegistryOK, SoundOK, Sound, ChampionListed, Registering, Working
<1>4. NewOK'
  BY <1>1 DEF RegistryOK, NewOK, Unlisted, Registering
<1>5. ServeOK'
  BY <1>1 DEF RegistryOK, ServeOK, HasFiles, Current
<1>6. RanksOK'
  BY <1>1 DEF RegistryOK, RanksOK, Champions, Between, Ranks, Current
<1> QED
  BY <1>2, <1>3, <1>4, <1>5, <1>6 DEF RegistryOK

LEMMA OperationKeeps ==
    ASSUME RegistryOK, NEW s \in Sessions, OperationStep(s)
    PROVE  RegistryOK'
<1> DEFINE m == session[s].model
<1>1. CASE CopyFiles(s, m)
  BY <1>1, CopyStep
<1>2. CASE Describe(s, m) \/ ArchiveOld(s) \/ PromoteNew(s, m) \/ ArchiveModel(s, m)
  BY <1>2, PromotionSteps
<1>3. CASE Save(s) \/ SaveOld(s) \/ SaveNew(s) \/ Point(s, m) \/ Forget(s, m)
  BY <1>3, Saves
<1>4. CASE RemoveFiles(s, m)
  BY <1>4, RemoveStep
<1> QED
  BY <1>1, <1>2, <1>3, <1>4 DEF OperationStep

LEMMA CallsKeep ==
    ASSUME RegistryOK, NEW s \in Sessions, NEW m \in Models,
           Register(s, m) \/ Promote(s, m) \/ Archive(s, m) \/ Delete(s, m)
    PROVE  RegistryOK'
  BY CallStep DEF Register, Promote, Archive, Delete

LEMMA RolloutKeepsRegistry ==
    ASSUME RegistryOK, [Next]_vars
    PROVE  RegistryOK'
<1>1. Sessions = Operators \cup {Manager} /\ Challenger \in Models
  BY RolloutAssumption
<1>2. ASSUME NEW s \in Operators, OperatorStep(s) PROVE RegistryOK'
  BY <1>1, <1>2, OpenStep, CloseStep, OperationKeeps, CallsKeep DEF OperatorStep
<1>3. CASE ManagerStep
  <2>1. CASE StartRollout
    BY <1>1, <2>1, OpenStep DEF StartRollout
  <2>2. CASE DeployStep \/ Evaluate \/ EndPromotion
    BY <2>2, RegistryStays DEF DeployStep, Evaluate, EndPromotion
  <2>3. CASE StartPromotion
    BY <1>1, <2>3, RegistryStays, CallsKeep DEF StartPromotion
  <2>4. CASE EndRollout
    BY <1>1, <2>4, CloseStep DEF EndRollout
  <2>5. CASE OperationStep(Manager)
    BY <1>1, <2>5, OperationKeeps
  <2> QED
    BY <1>3, <2>1, <2>2, <2>3, <2>4, <2>5 DEF ManagerStep
<1>4. CASE CrashStep
  BY <1>4, CrashOfOne DEF CrashStep
<1>5. CASE UNCHANGED vars
  BY <1>5, RegistryStays DEF vars
<1> QED
  BY <1>2, <1>3, <1>4, <1>5 DEF Next

----------------------------------------------------------------------------
(* The rollout.                                                            *)

\* An operation's steps are its own process's: the others stay where they are.
LEMMA OthersStay ==
    ASSUME TypeOKRegistry, NEW s \in Sessions, NEW t \in Sessions, t # s,
           \/ Open(s) \/ Close(s) \/ OperationStep(s) \/ Crash(s)
           \/ \E m \in Models : Register(s, m) \/ Promote(s, m) \/ Archive(s, m) \/ Delete(s, m)
    PROVE  session'[t].pc = session[t].pc
<1>1. \A q : session' = [session EXCEPT ![s] = q] => session'[t] = session[t]
  BY DEF TypeOKRegistry
<1>2. \A q : session' = Outdate([session EXCEPT ![s] = q], s) => session'[t].pc = session[t].pc
  <2> SUFFICES ASSUME NEW q, session' = Outdate([session EXCEPT ![s] = q], s)
               PROVE  session'[t].pc = session[t].pc
    OBVIOUS
  <2>1. session'[t] = [session[t] EXCEPT !.fresh = FALSE] /\ session[t] \in SessionState
    BY DEF Outdate, TypeOKRegistry
  <2> QED
    BY <2>1 DEF SessionState
<1>3. \A index, next : SaveIndex(s, index, next) => session'[t].pc = session[t].pc
  BY <1>2 DEF SaveIndex
<1>4. \A m, status, next : WriteMetadata(s, m, status, next) => session'[t].pc = session[t].pc
  BY <1>1 DEF WriteMetadata
<1>5. \A next : Goto(s, next) => session'[t].pc = session[t].pc
  BY <1>1 DEF Goto
<1>6. \A m, first : Call(s, m, first) => session'[t].pc = session[t].pc
  BY <1>1 DEF Call
<1>7. CASE Open(s) \/ Close(s) \/ Crash(s)
  BY <1>1, <1>7 DEF Open, Close, Crash
<1>8. CASE \E m \in Models : Register(s, m) \/ Promote(s, m) \/ Archive(s, m) \/ Delete(s, m)
  BY <1>6, <1>8 DEF Register, Promote, Archive, Delete
<1>9. CASE OperationStep(s)
  <2> DEFINE m == session[s].model
  <2>1. CASE CopyFiles(s, m) \/ Describe(s, m) \/ ArchiveOld(s) \/ PromoteNew(s, m) \/ ArchiveModel(s, m)
    BY <1>4, <1>5, <2>1 DEF CopyFiles, Describe, ArchiveOld, PromoteNew, ArchiveModel
  <2>2. CASE Save(s) \/ SaveOld(s) \/ SaveNew(s) \/ Point(s, m) \/ Forget(s, m)
    BY <1>3, <2>2 DEF Save, SaveOld, SaveNew, Point, Forget
  <2>3. CASE RemoveFiles(s, m)
    BY <1>2, <1>5, <2>3 DEF RemoveFiles
  <2> QED
    BY <1>9, <2>1, <2>2, <2>3 DEF OperationStep
<1> QED
  BY <1>7, <1>8, <1>9

\* Only a process that is at work takes a step of an operation.
LEMMA OperationBusy ==
    ASSUME NEW s \in Sessions, OperationStep(s)
    PROVE  Busy(s)
  BY DEF OperationStep, CopyFiles, Describe, Save, ArchiveOld, SaveOld, PromoteNew, SaveNew, Point,
         ArchiveModel, RemoveFiles, Forget, At, Busy

\* The classes have no such methods: no step of the rollout moves the traffic.
LEMMA NoSplit ==
    ASSUME NEW roll, NEW share, NEW phase
    PROVE  Split(roll, share, phase) = roll /\ Deploy(roll) = roll
  BY DEF Split, Deploy, SplitterMethods, RegistryMethods

LEMMA SharesFacts == Len(Shares) \in Nat /\ 1 \in 1..Len(Shares) /\ Shares[1] \in 0..100
<1>1. Shares \in Seq(1..99) /\ Shares # << >>
  BY RolloutAssumption
<1>2. Len(Shares) \in Nat /\ Len(Shares) # 0
  BY <1>1, LenProperties, EmptySeq
<1>3. 1 \in 1..Len(Shares)
  BY <1>2
<1>4. Shares[1] \in 1..99
  BY <1>1, <1>3, ElementOfSeq
<1> QED
  BY <1>2, <1>3, <1>4

\* The verdict decides, and only after the last step.
LEMMA EvaluateFacts ==
    ASSUME RolloutOK, Evaluate
    PROVE  /\ rollout' \in RolloutState /\ rollout'.pc # "promoting"
           /\ rollout'.pc = "promote" =>
                rollout'.step = Len(Shares) /\ rollout'.verdict = "promote"
<1>1. PICK verdict \in {"rollback", "promote", "continue"} : rollout' = After(verdict)
  BY DEF Evaluate, Recommend
<1> DEFINE judged == [rollout EXCEPT !.verdict = verdict]
<1>2. rollout \in RolloutState /\ Len(Shares) \in Nat
  BY SharesFacts DEF RolloutOK
<1>3. judged \in RolloutState /\ judged.step = rollout.step /\ judged.verdict = verdict
  BY <1>2 DEF RolloutState
<1>4. rollout' = IF verdict = "rollback" THEN [judged EXCEPT !.pc = "done"]
                 ELSE IF rollout.step < Len(Shares)
                 THEN [rollout EXCEPT !.step = rollout.step + 1, !.pc = "deploy"]
                 ELSE [judged EXCEPT !.pc = IF verdict = "promote" THEN "promote" ELSE "done"]
  BY <1>1, NoSplit DEF After
<1> HIDE DEF judged
<1>5. CASE verdict = "rollback"
  BY <1>3, <1>4, <1>5 DEF RolloutState
<1>6. CASE verdict # "rollback" /\ rollout.step < Len(Shares)
  <2>1. rollout' = [rollout EXCEPT !.step = rollout.step + 1, !.pc = "deploy"]
    BY <1>4, <1>6
  <2>2. rollout.step + 1 \in 1..Len(Shares)
    BY <1>2, <1>6 DEF RolloutState
  <2> QED
    BY <1>2, <2>1, <2>2 DEF RolloutState
<1>7. CASE verdict # "rollback" /\ ~(rollout.step < Len(Shares))
  <2>1. rollout' = [judged EXCEPT !.pc = IF verdict = "promote" THEN "promote" ELSE "done"]
    BY <1>4, <1>7
  <2>2. rollout.step = Len(Shares)
    BY <1>2, <1>7 DEF RolloutState
  <2> QED
    BY <1>3, <2>1, <2>2 DEF RolloutState
<1> QED
  BY <1>5, <1>6, <1>7

LEMMA RolloutStep ==
    ASSUME RegistryOK, RolloutOK, [Next]_vars
    PROVE  RolloutOK'
<1>1. /\ Sessions = Operators \cup {Manager} /\ Manager \notin Operators
      /\ Manager \in Sessions /\ TypeOKRegistry
  BY RolloutAssumption DEF RegistryOK
<1>2. /\ rollout \in RolloutState
      /\ rollout.pc \in {"promote", "promoting"} =>
           rollout.step = Len(Shares) /\ rollout.verdict = "promote"
      /\ session[Manager].pc \notin {"closed", "ready"} => rollout.pc = "promoting"
  BY DEF RolloutOK, Busy
<1>3. \A pc \in {"deploy", "watch", "promoting", "done"} :
        LET r == [rollout EXCEPT !.pc = pc]
        IN  r \in RolloutState /\ r.pc = pc /\ r.step = rollout.step /\ r.verdict = rollout.verdict
  BY <1>2 DEF RolloutState
<1>4. CASE rollout' = rollout /\ session'[Manager].pc = session[Manager].pc
  BY <1>2, <1>4 DEF RolloutOK, Busy
<1>5. ASSUME NEW s \in Operators, OperatorStep(s) PROVE RolloutOK'
  <2>1. session'[Manager].pc = session[Manager].pc
    BY <1>1, <1>5, OthersStay DEF OperatorStep
  <2> QED
    BY <1>4, <1>5, <2>1 DEF OperatorStep
<1>6. CASE ManagerStep
  <2>1. CASE StartRollout
    <3>1. session'[Manager].pc = "ready"
      BY <1>1, <2>1 DEF StartRollout, Open, TypeOKRegistry, Closed
    <3>2. rollout' = [rollout EXCEPT !.pc = "deploy"]
      BY <2>1 DEF StartRollout
    <3> QED
      BY <1>3, <3>1, <3>2 DEF RolloutOK, Busy
  <2>2. CASE DeployStep
    <3>1. rollout' = [rollout EXCEPT !.pc = "watch"] /\ session' = session /\ rollout.pc = "deploy"
      BY <2>2, NoSplit DEF DeployStep, registry, At_
    <3> QED
      BY <1>2, <1>3, <3>1 DEF RolloutOK, Busy
  <2>3. CASE Evaluate
    <3>1. session' = session /\ rollout.pc = "watch"
      BY <2>3 DEF Evaluate, registry, At_
    <3> QED
      BY <1>2, <2>3, <3>1, EvaluateFacts DEF RolloutOK, Busy
  <2>4. CASE StartPromotion
    <3>1. rollout' = [rollout EXCEPT !.pc = "promoting"] /\ rollout.pc = "promote"
      BY <2>4 DEF StartPromotion, At_
    <3> QED
      BY <1>2, <1>3, <3>1 DEF RolloutOK
  <2>5. CASE EndPromotion
    <3>1. /\ rollout' = [rollout EXCEPT !.pc = "done"]
          /\ session' = session /\ session[Manager].pc = "ready"
      BY <2>5, NoSplit DEF EndPromotion, registry, At
    <3> QED
      BY <1>3, <3>1 DEF RolloutOK, Busy
  <2>6. CASE EndRollout
    <3>1. session'[Manager].pc = "closed" /\ rollout' = rollout
      BY <1>1, <2>6 DEF EndRollout, Close, TypeOKRegistry, Closed
    <3> QED
      BY <1>2, <3>1 DEF RolloutOK, Busy
  <2>7. CASE OperationStep(Manager) /\ UNCHANGED rollout
    <3>1. Busy(Manager)
      BY <1>1, <2>7, OperationBusy
    <3> QED
      BY <1>2, <2>7, <3>1 DEF RolloutOK, Busy
  <2> QED
    BY <1>6, <2>1, <2>2, <2>3, <2>4, <2>5, <2>6, <2>7 DEF ManagerStep
<1>7. CASE CrashStep
  <2>1. PICK s \in Sessions :
          /\ Crash(s)
          /\ rollout' = IF s = Manager THEN [rollout EXCEPT !.pc = "done"] ELSE rollout
    BY <1>7 DEF CrashStep
  <2>2. CASE s = Manager
    <3>1. session'[Manager].pc = "closed"
      BY <1>1, <2>1, <2>2 DEF Crash, TypeOKRegistry, Closed
    <3> QED
      BY <1>3, <2>1, <2>2, <3>1 DEF RolloutOK, Busy
  <2>3. CASE s # Manager
    <3>1. session'[Manager].pc = session[Manager].pc
      BY <1>1, <2>1, <2>3, OthersStay
    <3> QED
      BY <1>4, <2>1, <2>3, <3>1
  <2> QED
    BY <2>2, <2>3
<1>8. CASE UNCHANGED vars
  BY <1>4, <1>8 DEF vars, registry
<1> QED
  BY <1>5, <1>6, <1>7, <1>8 DEF Next

LEMMA InitRegistryOK ==
    ASSUME InitRegistry
    PROVE  RegistryOK
<1>1. /\ meta = [m \in Models |-> "absent"] /\ disk = EmptyIndex
      /\ session = [s \in Sessions |-> Closed]
      /\ used = {} /\ conflict = FALSE /\ crashed = FALSE
  BY DEF InitRegistry
<1>2. TypeOKRegistry
  BY <1>1, EmptyFacts DEF TypeOKRegistry
<1>3. SoundOK
  BY <1>1, EmptyFacts, ClosedSound DEF SoundOK, ChampionListed
<1>4. NewOK
  BY <1>1, EmptyFacts, ClosedSound DEF NewOK, Unlisted
<1>5. ServeOK
  BY <1>1, EmptyFacts, ClosedSound DEF ServeOK, HasFiles
<1>6. RanksOK
  <2>1. Champions(disk) = {}
    BY <1>1, EmptyFacts DEF Champions
  <2> QED
    BY <1>1, <2>1, EmptyFacts, ClosedSound DEF RanksOK
<1> QED
  BY <1>2, <1>3, <1>4, <1>5, <1>6 DEF RegistryOK

----------------------------------------------------------------------------
(* The inference server and the retraining.                                *)

ServerOK ==
    /\ server \in [at : {"down", "up"}, listed : SUBSET Models,
                   champion : Models \cup {NoModel}, challenger : Models \cup {NoModel},
                   batcher : {"off", "on", "dead"}]
    /\ request \in [Requests ->
         [at : {"new", "queued", "answered", "cancelled"},
          malformed : BOOLEAN, by : Models \cup {NoModel}]]
    /\ waiting \in Seq(Requests) /\ batch \in Seq(Requests) /\ Len(batch) <= BatchSize

Waits(r) == \E i \in 1..Len(Line) : Line[i] = r

\* Who stands in the line stands there once and is waiting or has left; who waits
\* stands in the line, as long as the batch processor lives; and nobody waits for a
\* server that is down.
LineOK ==
    /\ \A i, j \in 1..Len(Line) : Line[i] = Line[j] => i = j
    /\ \A r \in Requests : Waits(r) => request[r].at \in {"queued", "cancelled"}
    /\ \A r \in Requests : request[r].at = "queued" /\ server.batcher = "on" => Waits(r)
    /\ \A r \in Requests : request[r].at = "queued" => Serves

ServingInv == RegistryOK /\ ServerOK /\ TypeOKRetraining /\ LineOK

\* The steps of a server that is there.
ServerStep ==
    \/ StartServer \/ StopServer \/ Collect \/ PredictBatch
    \/ \E m \in Models : SetChallenger(m)
    \/ \E r \in Requests : HandleRequest(r) \/ Enqueue(r) \/ Cancel(r)

LEMMA ServingCases ==
    ASSUME [NextServing]_servingVars
    PROVE  \/ \E s \in Sessions : RegistryStep(s)
           \/ ServerStep /\ UNCHANGED <<registry, retraining>>
           \/ RetrainingStep /\ UNCHANGED <<registry, serving>>
           \/ UNCHANGED servingVars
  BY DEF NextServing, BatchStep, ServerStep, StartServer, StopServer, Collect, PredictBatch,
         SetChallenger, HandleRequest, Enqueue, Cancel

LEMMA ServingKeepsRegistry ==
    ASSUME RegistryOK, [NextServing]_servingVars
    PROVE  RegistryOK'
<1>1. ASSUME NEW s \in Sessions, RegistryStep(s) PROVE RegistryOK'
  BY <1>1, OpenStep, CloseStep, OperationKeeps, CallsKeep DEF RegistryStep
<1>2. CASE UNCHANGED registry
  BY <1>2, RegistryStays
<1> QED
  BY <1>1, <1>2, ServingCases DEF servingVars

\* The types of the retraining, with the truth values spelled out.
StagesOK ==
    /\ runs \in [Stages -> 0..1]
    /\ \/ is_running = TRUE /\ runs["connect"] + runs["extract"] + runs["train"] = 1
       \/ is_running = FALSE /\ runs["connect"] + runs["extract"] + runs["train"] = 0
    /\ \/ connected = TRUE /\ runs["extract"] = 1
       \/ connected = FALSE /\ runs["extract"] # 1

LEMMA StagesFacts == TypeOKRetraining <=> StagesOK
<1> DEFINE sum == runs["connect"] + runs["extract"] + runs["train"]
           e == runs["extract"]
<1>1. is_running \in BOOLEAN /\ sum = (IF is_running THEN 1 ELSE 0)
        <=> \/ is_running = TRUE /\ sum = 1
            \/ is_running = FALSE /\ sum = 0
  <2> HIDE DEF sum
  <2> QED
    BY Zenon
<1>2. connected \in BOOLEAN /\ connected = (e = 1)
        <=> \/ connected = TRUE /\ e = 1
            \/ connected = FALSE /\ e # 1
  <2> HIDE DEF e
  <2> QED
    BY Zenon
<1> QED
  BY <1>1, <1>2, Zenon DEF TypeOKRetraining, StagesOK

LEMMA StagesStay == TypeOKRetraining' <=> StagesOK'
  BY StagesFacts, PTL

LEMMA RetrainingKept ==
    ASSUME TypeOKRetraining, RetrainingStep
    PROVE  TypeOKRetraining'
<1> SUFFICES StagesOK'
  BY StagesStay
<1>1. StagesOK
  BY StagesFacts
<1>2. /\ runs \in [Stages -> 0..1] /\ Stages = {"connect", "extract", "train"}
      /\ runs["connect"] \in 0..1 /\ runs["extract"] \in 0..1 /\ runs["train"] \in 0..1
  BY <1>1 DEF StagesOK, Stages
<1>3. CASE RunRetraining
  <2>1. is_running = FALSE /\ is_running' = TRUE /\ connected' = connected
    BY <1>1, <1>3, Zenon DEF StagesOK, RunRetraining
  <2>2. runs' = [runs EXCEPT !["connect"] = @ + 1]
    BY <1>3 DEF RunRetraining
  <2> QED
    BY <1>1, <1>2, <2>1, <2>2 DEF StagesOK
<1>4. CASE Connect
  <2>1. is_running' = is_running /\ connected' = TRUE /\ runs["connect"] > 0
        /\ runs' = [runs EXCEPT !["connect"] = @ - 1, !["extract"] = @ + 1]
    BY <1>4 DEF Connect, Advance
  <2> QED
    BY <1>1, <1>2, <2>1 DEF StagesOK
<1>5. CASE TrainOn
  <2>1. is_running' = is_running /\ connected' = FALSE /\ runs["extract"] > 0
        /\ runs' = [runs EXCEPT !["extract"] = @ - 1, !["train"] = @ + 1]
    BY <1>5 DEF TrainOn, Advance
  <2> QED
    BY <1>1, <1>2, <2>1 DEF StagesOK
<1>6. ASSUME NEW stage \in Stages, End(stage) PROVE StagesOK'
  <2>1. /\ is_running' = FALSE /\ runs[stage] > 0 /\ runs' = [runs EXCEPT ![stage] = @ - 1]
        /\ connected' = (connected /\ stage # "extract")
    BY <1>6 DEF End
  <2>2. connected = FALSE \/ stage = "extract" => connected' = FALSE
    BY <2>1, Zenon
  <2>3. connected = TRUE => stage = "extract"
    BY <1>1, <1>2, <2>1 DEF StagesOK
  <2>4. connected' = FALSE
    BY <1>1, <2>2, <2>3, Zenon DEF StagesOK
  <2>5. /\ runs' \in [Stages -> 0..1]
        /\ runs'["connect"] + runs'["extract"] + runs'["train"] = 0
        /\ runs'["extract"] # 1
    BY <1>1, <1>2, <2>1 DEF StagesOK
  <2> QED
    BY <2>1, <2>4, <2>5, Zenon DEF StagesOK
<1> QED
  BY <1>3, <1>4, <1>5, <1>6 DEF RetrainingStep, Ends

LEMMA ChosenFacts ==
    ASSUME ServerOK
    PROVE  Chosen \subseteq Models \cup {NoModel}
  BY DEF ServerOK, Chosen

\* What an answer to some futures of a batch does to the requests.
LEMMA ResolvedFacts ==
    ASSUME ServerOK, NEW requests, NEW m \in Models \cup {NoModel}, request' = Resolved(requests, m)
    PROVE  /\ request' \in [Requests ->
                [at : {"new", "queued", "answered", "cancelled"},
                 malformed : BOOLEAN, by : Models \cup {NoModel}]]
           /\ \A r \in Requests : request'[r].at = IF r \in requests /\ request[r].at = "queued"
                                                   THEN "answered" ELSE request[r].at
  BY DEF ServerOK, Resolved

LEMMA ServerKept ==
    ASSUME ServerOK, TypeOKRegistry, ServerStep
    PROVE  ServerOK'
<1>1. CASE StartServer
  <2>1. Listed(disk) \subseteq Models
    BY DEF Listed
  <2>2. PICK m \in Models : server' = [Down EXCEPT !.at = "up", !.listed = Listed(disk),
                                                   !.champion = m, !.batcher = "on"]
    BY <1>1 DEF StartServer, GetChampion
  <2> QED
    BY <1>1, <2>1, <2>2 DEF StartServer, Down, ServerOK
<1>2. CASE StopServer
  BY <1>2, EmptySeq, ServingAssumption DEF StopServer, Down, NewRequest, ServerOK
<1>3. CASE Collect
  BY <1>3, AppendProperties, HeadTailProperties, ServingAssumption DEF Collect, ServerOK
<1>4. CASE PredictBatch
  <2>1. batch' \in Seq(Requests) /\ Len(batch') <= BatchSize /\ waiting' \in Seq(Requests)
    BY <1>4, EmptySeq, ServingAssumption DEF PredictBatch, ServerOK
  <2>2. CASE Poisoned
    BY <1>4, <2>1, <2>2 DEF PredictBatch, ServerOK
  <2>3. CASE ~Poisoned
    <3>1. PICK m \in Models \cup {NoModel} : request' = Resolved(ToSet(batch), m) /\ server' = server
      BY <1>4, <2>3, ChosenFacts DEF PredictBatch
    <3> QED
      BY <2>1, <3>1, ResolvedFacts DEF ServerOK
  <2> QED
    BY <2>2, <2>3
<1>5. ASSUME NEW m \in Models, SetChallenger(m) PROVE ServerOK'
  BY <1>5 DEF SetChallenger, ServerOK
<1>6. ASSUME NEW r \in Requests, HandleRequest(r) \/ Enqueue(r) \/ Cancel(r) PROVE ServerOK'
  <2>1. CASE HandleRequest(r)
    <3>1. PICK m \in Models \cup {NoModel} :
            request' = [request EXCEPT ![r].at = "answered", ![r].by = m]
      BY <2>1, ChosenFacts DEF HandleRequest
    <3>2. ASSUME NEW q \in Requests
          PROVE  request'[q] \in [at : {"new", "queued", "answered", "cancelled"},
                                  malformed : BOOLEAN, by : Models \cup {NoModel}]
      BY <3>1, Zenon DEF ServerOK
    <3> QED
      BY <2>1, <3>1, <3>2 DEF HandleRequest, ServerOK
  <2>2. CASE Enqueue(r)
    <3>1. waiting' \in Seq(Requests)
      BY <2>2, AppendProperties DEF Enqueue, ServerOK
    <3>2. PICK malformed \in BOOLEAN :
            request' = [request EXCEPT ![r].at = "queued", ![r].malformed = malformed]
      BY <2>2 DEF Enqueue
    <3>3. ASSUME NEW q \in Requests
          PROVE  request'[q] \in [at : {"new", "queued", "answered", "cancelled"},
                                  malformed : BOOLEAN, by : Models \cup {NoModel}]
      BY <3>2, Zenon DEF ServerOK
    <3> QED
      BY <2>2, <3>1, <3>2, <3>3 DEF Enqueue, ServerOK
  <2>3. CASE Cancel(r)
    BY <2>3 DEF Cancel, ServerOK
  <2> QED
    BY <1>6, <2>1, <2>2, <2>3
<1> QED
  BY <1>1, <1>2, <1>3, <1>4, <1>5, <1>6 DEF ServerStep

\* The line is the batch and then the queue.
LEMMA LineFacts ==
    ASSUME ServerOK
    PROVE  /\ Line \in Seq(Requests)
           /\ Len(batch) \in Nat /\ Len(waiting) \in Nat
           /\ Len(Line) = Len(batch) + Len(waiting)
           /\ \A i \in 1..Len(batch) : Line[i] = batch[i]
           /\ \A i \in 1..Len(waiting) : Line[Len(batch) + i] = waiting[i]
<1>1. batch \in Seq(Requests) /\ waiting \in Seq(Requests)
  BY DEF ServerOK
<1> QED
  BY <1>1, ConcatProperties, LenProperties DEF Line

\* A step that changes neither the line nor who waits in it.
LEMMA LineStays ==
    ASSUME LineOK, Line' = Line, UNCHANGED <<server, request>>
    PROVE  LineOK'
  BY DEF LineOK, Waits, Serves

LEMMA StartKeepsLine ==
    ASSUME LineOK, StartServer
    PROVE  LineOK'
<1>1. Line' = Line /\ request' = request
  BY DEF StartServer, Line
<1>2. \A r \in Requests : request[r].at # "queued"
  BY DEF LineOK, StartServer
<1> QED
  BY <1>1, <1>2 DEF LineOK, Waits

LEMMA StopKeepsLine ==
    ASSUME ServerOK, StopServer
    PROVE  LineOK'
<1>1. Line' = << >>
  BY EmptySeq, ConcatEmptySeq DEF StopServer, Line
<1>2. Len(Line') = 0
  BY <1>1, EmptySeq
<1>3. \A r \in Requests : request'[r].at # "queued"
  BY DEF StopServer, NewRequest, ServerOK
<1> QED
  BY <1>2, <1>3 DEF LineOK, Waits

LEMMA CollectKeepsLine ==
    ASSUME ServerOK, LineOK, Collect, ServerOK'
    PROVE  LineOK'
<1>1. batch \in Seq(Requests) /\ waiting \in Seq(Requests) /\ waiting # << >>
  BY DEF ServerOK, Collect
<1>2. batch' = Append(batch, Head(waiting)) /\ waiting' = Tail(waiting)
  BY DEF Collect
<1>3. Line' = Line
  BY <1>1, <1>2 DEF Line
<1> QED
  BY <1>3, LineStays DEF Collect

\* The batch is answered, or lost with its processor: what is left of the line is the queue.
LEMMA PredictKeepsLine ==
    ASSUME ServerOK, LineOK, PredictBatch
    PROVE  LineOK'
<1>1. batch \in Seq(Requests) /\ waiting \in Seq(Requests)
  BY DEF ServerOK
<1>2. Line' = waiting
  BY <1>1, ConcatEmptySeq DEF PredictBatch, Line
<1>3. /\ Len(batch) \in Nat /\ Len(waiting) \in Nat
      /\ Len(Line) = Len(batch) + Len(waiting)
      /\ \A i \in 1..Len(batch) : Line[i] = batch[i]
      /\ \A i \in 1..Len(waiting) : Line[Len(batch) + i] = waiting[i]
  BY LineFacts
<1>4. \A i, j \in 1..Len(waiting) : waiting[i] = waiting[j] => i = j
  <2> SUFFICES ASSUME NEW i \in 1..Len(waiting), NEW j \in 1..Len(waiting), waiting[i] = waiting[j]
               PROVE  i = j
    OBVIOUS
  <2>1. /\ Len(batch) + i \in 1..Len(Line) /\ Len(batch) + j \in 1..Len(Line)
        /\ Line[Len(batch) + i] = Line[Len(batch) + j]
    BY <1>3
  <2>2. Len(batch) + i = Len(batch) + j
    BY <2>1 DEF LineOK
  <2> QED
    BY <1>3, <2>2
<1>5. \A r \in Requests : (\E i \in 1..Len(waiting) : waiting[i] = r) => Waits(r) /\ r \notin ToSet(batch)
  <2> SUFFICES ASSUME NEW i \in 1..Len(waiting) PROVE Waits(waiting[i]) /\ waiting[i] \notin ToSet(batch)
    OBVIOUS
  <2>1. Len(batch) + i \in 1..Len(Line) /\ Line[Len(batch) + i] = waiting[i]
    BY <1>3
  <2>2. ASSUME NEW j \in DOMAIN batch, batch[j] = waiting[i] PROVE FALSE
    <3>1. j \in 1..Len(batch) /\ j \in 1..Len(Line) /\ Line[j] = Line[Len(batch) + i]
      BY <1>1, <1>3, <2>1, <2>2, LenProperties
    <3>2. j = Len(batch) + i
      BY <2>1, <3>1 DEF LineOK
    <3> QED
      BY <1>3, <3>1, <3>2
  <2> QED
    BY <2>1, <2>2 DEF Waits, ToSet
<1>6. \A r \in Requests : Waits(r) => r \in ToSet(batch) \/ \E i \in 1..Len(waiting) : waiting[i] = r
  <2> SUFFICES ASSUME NEW i \in 1..Len(Line)
               PROVE  Line[i] \in ToSet(batch) \/ \E j \in 1..Len(waiting) : waiting[j] = Line[i]
    BY DEF Waits
  <2>1. CASE i <= Len(batch)
    <3>1. i \in 1..Len(batch) /\ i \in DOMAIN batch
      BY <1>1, <1>3, <2>1, LenProperties
    <3> QED
      BY <1>3, <3>1 DEF ToSet
  <2>2. CASE i > Len(batch)
    <3>1. PICK j \in 1..Len(waiting) : i = Len(batch) + j
      <4>1. i - Len(batch) \in 1..Len(waiting) /\ i = Len(batch) + (i - Len(batch))
        BY <1>3, <2>2
      <4> QED
        BY <4>1
    <3> QED
      BY <1>3, <3>1
  <2> QED
    BY <1>3, <2>1, <2>2
<1>7. \A r \in Requests : Waits(r)' <=> \E i \in 1..Len(waiting) : waiting[i] = r
  BY <1>2 DEF Waits
<1>8. CASE Poisoned
  <2>1. request' = request /\ server' = [server EXCEPT !.batcher = "dead"]
    BY <1>8 DEF PredictBatch
  <2>2. server'.batcher = "dead" /\ server'.at = server.at
    BY <2>1 DEF ServerOK
  <2> QED
    BY <1>2, <1>4, <1>5, <1>7, <2>1, <2>2 DEF LineOK, Serves
<1>9. CASE ~Poisoned
  <2>1. PICK m \in Models \cup {NoModel} : request' = Resolved(ToSet(batch), m) /\ server' = server
    BY <1>9, ChosenFacts DEF PredictBatch
  <2>2. \A r \in Requests : request'[r].at = IF r \in ToSet(batch) /\ request[r].at = "queued"
                                             THEN "answered" ELSE request[r].at
    BY <2>1, ResolvedFacts
  <2> QED
    BY <1>2, <1>4, <1>5, <1>6, <1>7, <2>1, <2>2 DEF LineOK, Serves
<1> QED
  BY <1>8, <1>9

LEMMA EnqueueKeepsLine ==
    ASSUME ServerOK, LineOK, NEW r \in Requests, Enqueue(r)
    PROVE  LineOK'
<1>1. batch \in Seq(Requests) /\ waiting \in Seq(Requests)
  BY DEF ServerOK
<1>2. Line' = Append(Line, r)
  BY <1>1 DEF Enqueue, Line
<1>3. Line \in Seq(Requests) /\ Len(Line) \in Nat
  BY LineFacts, LenProperties
<1>4. /\ Len(Line') = Len(Line) + 1
      /\ \A i \in 1..Len(Line) : Line'[i] = Line[i]
      /\ Line'[Len(Line) + 1] = r
  BY <1>2, <1>3, AppendProperties
<1>5. ~Waits(r)
  BY DEF Enqueue, LineOK
<1>6. \A i, j \in 1..Len(Line') : Line'[i] = Line'[j] => i = j
  BY <1>3, <1>4, <1>5 DEF LineOK, Waits
<1>7. \A q \in Requests : Waits(q)' <=> Waits(q) \/ q = r
  BY <1>3, <1>4 DEF Waits
<1>8. /\ request'[r].at = "queued" /\ \A q \in Requests : q # r => request'[q] = request[q]
      /\ server' = server /\ Serves
  BY DEF Enqueue, ServerOK
<1> QED
  BY <1>6, <1>7, <1>8 DEF LineOK, Serves

LEMMA LineKept ==
    ASSUME ServerOK, LineOK, ServerStep, ServerOK'
    PROVE  LineOK'
<1>1. ASSUME NEW m \in Models, SetChallenger(m) PROVE LineOK'
  <2>1. Line' = Line /\ request' = request
    BY <1>1 DEF SetChallenger, Line
  <2>2. server'.batcher = server.batcher /\ server'.at = server.at
    BY <1>1 DEF SetChallenger, ServerOK
  <2> QED
    BY <2>1, <2>2 DEF LineOK, Waits, Serves
<1>2. ASSUME NEW r \in Requests, HandleRequest(r) \/ Cancel(r) PROVE LineOK'
  <2>1. Line' = Line /\ server' = server
    BY <1>2 DEF HandleRequest, Cancel, Line
  <2>2. \A q \in Requests : q # r => request'[q] = request[q]
    BY <1>2 DEF HandleRequest, Cancel, ServerOK
  <2>3. \/ request[r].at = "new" /\ request'[r].at = "answered"
        \/ request[r].at = "queued" /\ request'[r].at = "cancelled"
    BY <1>2 DEF HandleRequest, Cancel, ServerOK
  <2> QED
    BY <2>1, <2>2, <2>3 DEF LineOK, Waits, Serves
<1> QED
  BY <1>1, <1>2, StartKeepsLine, StopKeepsLine, CollectKeepsLine, PredictKeepsLine,
     EnqueueKeepsLine DEF ServerStep

LEMMA InitServingInv == InitServing => ServingInv
<1> SUFFICES ASSUME InitServing PROVE ServingInv
  OBVIOUS
<1>1. RegistryOK
  BY InitRegistryOK DEF InitServing
<1>2. ServerOK
  BY EmptySeq, ServingAssumption DEF InitServing, Down, NewRequest, ServerOK
<1>3. TypeOKRetraining
  <2>1. is_running = FALSE /\ connected = FALSE /\ runs = [stage \in Stages |-> 0]
    BY DEF InitServing, InitRetraining
  <2>2. /\ runs \in [Stages -> 0..1]
        /\ runs["connect"] + runs["extract"] + runs["train"] = 0 /\ runs["extract"] # 1
    BY <2>1 DEF Stages
  <2> QED
    BY <2>1, <2>2, StagesFacts, Zenon DEF StagesOK
<1>4. LineOK
  <2>1. Len(Line) = 0
    BY EmptySeq, ConcatEmptySeq DEF InitServing, Line
  <2>2. \A r \in Requests : request[r].at = "new"
    BY DEF InitServing, NewRequest
  <2> QED
    BY <2>1, <2>2 DEF LineOK, Waits
<1> QED
  BY <1>1, <1>2, <1>3, <1>4 DEF ServingInv

LEMMA NextServingInv == ServingInv /\ [NextServing]_servingVars => ServingInv'
<1> SUFFICES ASSUME ServingInv, [NextServing]_servingVars PROVE ServingInv'
  OBVIOUS
<1>1. RegistryOK'
  BY ServingKeepsRegistry DEF ServingInv
<1>2. UNCHANGED serving => ServerOK' /\ LineOK'
  <2> SUFFICES ASSUME UNCHANGED <<server, request, waiting, batch>> PROVE ServerOK' /\ LineOK'
    BY DEF serving
  <2>1. Line' = Line
    BY DEF Line
  <2> QED
    BY <2>1, LineStays DEF ServingInv, ServerOK
<1>3. UNCHANGED retraining => TypeOKRetraining'
  BY DEF retraining, ServingInv, TypeOKRetraining
<1>4. ServerStep => ServerOK' /\ LineOK'
  BY ServerKept, LineKept DEF ServingInv, RegistryOK
<1>5. RetrainingStep => TypeOKRetraining'
  BY RetrainingKept DEF ServingInv
<1> QED
  BY <1>1, <1>2, <1>3, <1>4, <1>5, ServingCases DEF ServingInv, RegistryStep, servingVars

----------------------------------------------------------------------------
(* Theorems.                                                               *)

LEMMA InitInvariant ==
    ASSUME Init
    PROVE  IInv
<1>1. RegistryOK
  BY InitRegistryOK DEF Init
<1>2. RolloutOK
  <2>1. NoRollout \in RolloutState /\ NoRollout.pc = "off"
    BY SharesFacts DEF NoRollout, RolloutState
  <2>2. session[Manager].pc = "closed"
    BY EmptyFacts, RolloutAssumption DEF Init, InitRegistry
  <2> QED
    BY <2>1, <2>2 DEF Init, RolloutOK, Busy
<1> QED
  BY <1>1, <1>2 DEF IInv, RegistryOK

LEMMA NextInvariant ==
    ASSUME IInv, [Next]_vars
    PROVE  IInv'
  BY RolloutKeepsRegistry, RolloutStep DEF IInv, RegistryOK

\* In every behaviour of operators, deployment manager and crashes the inductive
\* invariant holds.
THEOREM Invariance == Spec => []IInv
  BY InitInvariant, NextInvariant, PTL DEF Spec

\* Until two processes were in each other's way, the champion the index names is
\* listed and has its files, whatever process died at whatever write.
THEOREM ChampionCanBeServed == Spec => []ChampionServable
<1>1. IInv => ChampionServable
  BY DEF IInv, TypeOKRegistry, Index, SoundOK, ChampionListed, ServeOK, HasFiles,
         ChampionServable, GetChampion, HasPath
<1> QED
  BY <1>1, Invariance, PTL

\* Until a process died or two were in each other's way, nobody who lists the models
\* sees two champions, also not in the middle of a promotion.
THEOREM AtMostOneChampion == Spec => []OneChampion
<1>1. ASSUME IInv PROVE OneChampion
  <2> SUFFICES ASSUME ~conflict, ~crashed PROVE Cardinality(ListModels(disk, "champion")) <= 1
    BY DEF OneChampion
  <2> DEFINE L == ListModels(disk, "champion")
  <2>1. \A m, n \in L : m = n
    BY <1>1 DEF IInv, RanksOK, Champions, ListModels
  <2> HIDE DEF L
  <2>2. CASE L = {}
    BY <2>2, FS_EmptySet DEF L
  <2>3. ASSUME NEW m \in L PROVE Cardinality(L) <= 1
    <3>1. L = {m}
      BY <2>1
    <3>2. Cardinality({m}) = 1
      BY FS_Singleton, Zenon
    <3> QED
      BY <3>1, <3>2
  <2> QED
    BY <2>2, <2>3 DEF L
<1> QED
  BY <1>1, Invariance, PTL

\* The rollout never makes its challenger the champion unless its last step was judged
\* "promote".
THEOREM ChallengerPromotedByVerdict == Spec => PromotedByVerdict
<1>1. ASSUME IInv, Next, disk.champion # Challenger, disk'.champion = Challenger
      PROVE  \/ \E s \in Operators : Busy(s)
             \/ rollout.step = Len(Shares) /\ rollout.verdict = "promote"
  <2>1. disk' # disk /\ Manager \in Sessions /\ Operators \subseteq Sessions /\ Challenger \in Models
    BY <1>1, RolloutAssumption
  <2>2. ASSUME NEW s \in Operators, OperatorStep(s) PROVE Busy(s)
    <3>1. OperationStep(s)
      BY <2>1, <2>2 DEF OperatorStep, Open, Close, Register, Promote, Archive, Delete, Call
    <3> QED
      BY <2>1, <3>1, OperationBusy
  <2>3. CASE ManagerStep
    <3>1. OperationStep(Manager)
      BY <2>1, <2>3 DEF ManagerStep, StartRollout, DeployStep, Evaluate, StartPromotion,
                        EndPromotion, EndRollout, Open, Close, Promote, Call, registry
    <3>2. Busy(Manager)
      BY <2>1, <3>1, OperationBusy
    <3> QED
      BY <1>1, <3>2 DEF IInv, RolloutOK
  <2>4. CASE CrashStep
    <3>1. disk' = TornIndex
      BY <2>1, <2>4 DEF CrashStep, Crash, TornIndex
    <3> QED
      BY <1>1, <2>1, <3>1, EmptyFacts, RegistryAssumption
  <2> QED
    BY <1>1, <2>2, <2>3, <2>4 DEF Next
<1>2. IInv /\ [Next]_vars =>
        [disk.champion # Challenger /\ disk'.champion = Challenger =>
           \/ \E s \in Operators : Busy(s)
           \/ rollout.step = Len(Shares) /\ rollout.verdict = "promote"]_vars
  BY <1>1
<1> QED
  BY <1>2, Invariance, PTL DEF Spec, PromotedByVerdict

\* The inductive invariant of the server beside operators and retraining runs.
THEOREM ServingInvariance == SpecServing => []ServingInv
  BY InitServingInv, NextServingInv, PTL DEF SpecServing

\* The server's variables keep their types, a batch its size, and no run of the
\* retraining, however it ends, keeps a later one out.
THEOREM ServingTypeCorrect == SpecServing => []TypeOKServing
<1>1. ServingInv => TypeOKServing
  BY DEF ServingInv, RegistryOK, ServerOK, TypeOKServing
<1> QED
  BY <1>1, ServingInvariance, PTL

\* As long as the batch processor lives, who waits for a batch stands in the queue or in
\* the batch, once, whatever is cancelled, answered beside it, stopped or started again.
THEOREM NobodyIsForgotten == SpecServing => []NoRequestForgotten
<1>1. ASSUME ServingInv PROVE NoRequestForgotten
  <2> SUFFICES ASSUME NEW r \in Requests, request[r].at = "queued", server.batcher = "on"
               PROVE  \E i \in 1..Len(Line) : \A j \in 1..Len(Line) : Line[j] = r <=> j = i
    BY DEF NoRequestForgotten
  <2>1. PICK i \in 1..Len(Line) : Line[i] = r
    BY <1>1 DEF ServingInv, LineOK, Waits
  <2>2. \A j \in 1..Len(Line) : Line[j] = r <=> j = i
    BY <1>1, <2>1 DEF ServingInv, LineOK
  <2> QED
    BY <2>2
<1> QED
  BY <1>1, ServingInvariance, PTL

============================================================================
