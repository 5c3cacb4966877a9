------------------------ MODULE ConfigRuntimeProofs ------------------------
(***************************************************************************)
(* Proofs about the configuration life cycle, for any number of admins,    *)
(* topologies, rules and revisions, and any choice of faults and imports.  *)
(***************************************************************************)
EXTENDS ConfigRuntime, TLAPS

\* The pieces requests are made of are well typed.
LEMMA Constants ==
    /\ InitialConfig \in Config
    /\ Unset \in Stored
    /\ NoRequest \in Request
BY ConstantsAssumption DEF InitialConfig, Config, Unset, Stored, NoRequest, Request, Stages

\* An admin without a request is idle.
LEMMA IdleRequest == NoRequest.stage = "idle"
BY DEF NoRequest

\* What the type invariant says of the pieces of the state.
LEMMA Types ==
    ASSUME TypeOK
    PROVE  /\ db \in Stored /\ db.rev \in Nat /\ db.cfg \in Config
           /\ stored \in Stored /\ stored.rev \in Nat /\ stored.cfg \in Config
           /\ lastGood # None => lastGood \in Stored /\ lastGood.rev \in Nat /\ lastGood.cfg \in Config
           /\ req \in [Admins -> Request]
           /\ \A a \in Admins :
                /\ req[a] \in Request
                /\ req[a].save \in Stored /\ req[a].save.rev \in Nat /\ req[a].save.cfg \in Config
                /\ req[a].seen \in Stored /\ req[a].seen.rev \in Nat
<1>1. /\ db \in Stored /\ stored \in Stored /\ lastGood \in Stored \cup {None}
      /\ req \in [Admins -> Request]
    BY ZenonT(60) DEF TypeOK, StoreType, RunType, AdminType
<1> QED BY <1>1 DEF Stored, Request

-----------------------------------------------------------------------------
(* Types.  Each part of the type invariant depends on variables of its own *)
(* and is kept by the steps that leave them alone.                         *)

LEMMA StoreStutter == StoreType /\ UNCHANGED <<db, history>> => StoreType'
BY DEF StoreType

LEMMA AdminStutter == AdminType /\ UNCHANGED <<req, writer>> => AdminType'
BY DEF AdminType

LEMMA RunStutter == RunType /\ UNCHANGED <<pc, stored, live, lastGood>> => RunType'
BY ZenonT(60) DEF RunType

LEMMA WakeStutter == WakeType /\ UNCHANGED <<timer, permit, accounting>> => WakeType'
BY DEF WakeType

LEMMA AuxStutter == AuxType /\ UNCHANGED aux => AuxType'
BY DEF AuxType

\* Writing a revision of the store with its history entry keeps the store typed.
LEMMA RecordedType ==
    ASSUME TypeOK, NEW s \in Stored, db' = s, history' = Recorded(s)
    PROVE  StoreType'
BY DEF TypeOK, StoreType, Recorded, Stored

\* Every configuration write begins with a well-typed request.
LEMMA BeginType ==
    ASSUME TypeOK, NEW a \in Admins, NEW from, NEW kind \in {"put", "edit"},
           NEW cfg \in Config, Begin(a, from, kind, cfg)
    PROVE  TypeOK'
<1>1. req' \in [Admins -> Request]
    <2>1. [req[a] EXCEPT !.stage = "read", !.kind = kind, !.base = db,
                         !.save = [rev |-> 0, cfg |-> cfg]] \in Request
        <3>1. [rev |-> 0, cfg |-> cfg] \in Stored
            BY DEF Stored
        <3>2. db \in Stored /\ req[a] \in Request
            BY Types
        <3> QED BY ZenonT(60), <3>1, <3>2 DEF Request, Stages
    <2> QED BY <2>1, Types DEF Begin
<1>2. AdminType'
    BY <1>1 DEF AdminType, Begin
<1> QED
    BY <1>2, StoreStutter, RunStutter, WakeStutter, AuxStutter
    DEF TypeOK, Begin, storeVars, runVars, liveVars, wakeVars

\* A step of the admin API keeps the types.
LEMMA AdminStartType == TypeOK /\ AdminStart => TypeOK'
<1> SUFFICES ASSUME TypeOK, AdminStart PROVE TypeOK'
    OBVIOUS
<1>1. ASSUME NEW a \in Admins, GetConfig(a) PROVE TypeOK'
    <2>1. [NoRequest EXCEPT !.stage = "editing", !.seen = db] \in Request
        BY ZenonT(60), Constants, Types DEF Request, Stages
    <2>2. AdminType'
        BY <1>1, <2>1 DEF GetConfig, TypeOK, AdminType
    <2> QED
        BY <1>1, <2>2, StoreStutter, RunStutter, WakeStutter, AuxStutter
        DEF GetConfig, TypeOK, storeVars, runVars, liveVars, wakeVars
<1>2. ASSUME NEW a \in Admins, NEW cfg \in Config, PutConfig(a, cfg) PROVE TypeOK'
    BY <1>2, BeginType DEF PutConfig
<1>3. ASSUME NEW a \in Admins, NEW topo \in Topologies, ListenerOperation(a, topo) PROVE TypeOK'
    <2>1. [db.cfg EXCEPT !.topo = topo] \in Config
        BY Types DEF Config
    <2> QED BY <1>3, <2>1, BeginType DEF ListenerOperation
<1>4. ASSUME NEW a \in Admins, NEW r \in DOMAIN history, RollbackConfig(a, r) PROVE TypeOK'
    <2>1. history[r] \in Config
        BY DEF TypeOK, StoreType
    <2> QED BY <1>4, <2>1, BeginType DEF RollbackConfig
<1>5. CASE CertificateChanged
    <2>1. WakeType'
        BY <1>5 DEF CertificateChanged, ConfigurationChanged, TypeOK, WakeType, runVars
    <2> QED
        BY <1>5, <2>1, StoreStutter, AdminStutter, RunStutter, AuxStutter
        DEF CertificateChanged, TypeOK, storeVars, adminVars, runVars, liveVars
<1>6. ASSUME NEW r \in DOMAIN history, NEW clear \in BOOLEAN, ImportDatabase(r, clear) PROVE TypeOK'
    <2>1. StoreType'
        BY <1>6 DEF ImportDatabase, TypeOK, StoreType, Stored
    <2>2. AuxType'
        BY ZenonT(60), <1>6 DEF ImportDatabase, TypeOK, AuxType
    <2>3. WakeType'
        BY <1>6 DEF ImportDatabase, ConfigurationChanged, TypeOK, WakeType, runVars
    <2> QED
        BY <1>6, <2>1, <2>2, <2>3, AdminStutter, RunStutter
        DEF ImportDatabase, TypeOK, adminVars, runVars, liveVars
<1> QED
    BY <1>1, <1>2, <1>3, <1>4, <1>5, <1>6 DEF AdminStart

\* A step of a request in flight keeps the types.
LEMMA AdminStepType == TypeOK /\ AdminStep => TypeOK'
<1> SUFFICES ASSUME TypeOK, NEW a \in Admins,
                    SaveRead(a) \/ SaveWrite(a) \/ ApplyByReload(a) \/ ApplyHot(a) \/ FinishHot(a)
             PROVE  TypeOK'
    BY DEF AdminStep
<1>1. CASE SaveRead(a)
    <2> DEFINE st == IF req[a].stage = "read" THEN "write" ELSE "detached write"
               new == [req[a] EXCEPT !.stage = st, !.save = [req[a].save EXCEPT !.rev = db.rev + 1]]
    <2>1. req' = [req EXCEPT ![a] = new]
        BY <1>1, Types, Zenon DEF SaveRead
    <2>2. new \in Request
        <3>1. [req[a].save EXCEPT !.rev = db.rev + 1] \in Stored
            BY Types DEF Stored
        <3> QED BY ZenonT(60), <3>1, Types DEF Request, Stages
    <2>3. AdminType'
        <3>1. writer' = writer
            BY ZenonT(60), <1>1 DEF SaveRead
        <3>2. req \in [Admins -> Request] /\ writer \in Admins \cup {None}
            BY DEF TypeOK, AdminType
        <3>3. req' \in [Admins -> Request]
            <4> HIDE DEF new
            <4> QED BY <2>1, <2>2, <3>2
        <3> QED BY <3>1, <3>2, <3>3 DEF AdminType
    <2> QED
        BY ZenonT(60), <1>1, <2>3, StoreStutter, RunStutter, WakeStutter, AuxStutter
        DEF SaveRead, TypeOK, storeVars, runVars, liveVars, wakeVars
<1>2. CASE SaveWrite(a)
    <2>1. (IF req[a].stage = "write" THEN [req[a] EXCEPT !.stage = "saved"] ELSE NoRequest) \in Request
        BY ZenonT(60), Types, Constants DEF Request, Stages
    <2>2. AdminType'
        BY ZenonT(60), <1>2, <2>1 DEF SaveWrite, TypeOK, AdminType
    <2>3. StoreType'
        BY ZenonT(60), <1>2, Types, RecordedType DEF SaveWrite
    <2>4. AuxType'
        BY ZenonT(60), <1>2 DEF SaveWrite, TypeOK, AuxType
    <2> QED
        BY ZenonT(60), <1>2, <2>2, <2>3, <2>4, RunStutter, WakeStutter
        DEF SaveWrite, TypeOK, runVars, liveVars, wakeVars
<1>3. CASE ApplyByReload(a)
    <2>1. AdminType'
        BY <1>3, Constants DEF ApplyByReload, Done, TypeOK, AdminType
    <2>2. WakeType'
        BY <1>3 DEF ApplyByReload, ConfigurationChanged, TypeOK, WakeType, runVars
    <2> QED
        BY <1>3, <2>1, <2>2, StoreStutter, RunStutter, AuxStutter
        DEF ApplyByReload, TypeOK, storeVars, runVars, liveVars
<1>4. CASE ApplyHot(a)
    <2>1. [req[a] EXCEPT !.stage = "hot"] \in Request
        BY ZenonT(60), Types DEF Request, Stages
    <2>2. AdminType'
        BY <1>4, <2>1 DEF ApplyHot, TypeOK, AdminType
    <2>3. RunType'
        BY ZenonT(60), <1>4, Types DEF ApplyHot, TypeOK, RunType, runVars
    <2> QED
        BY <1>4, <2>2, <2>3, StoreStutter, WakeStutter, AuxStutter
        DEF ApplyHot, TypeOK, storeVars, runVars, wakeVars
<1>5. CASE FinishHot(a)
    <2>1. AdminType'
        BY <1>5, Constants DEF FinishHot, Done, TypeOK, AdminType
    <2>2. RunType'
        BY ZenonT(60), <1>5, Types DEF FinishHot, StoreLastGood, TypeOK, RunType, runVars
    <2>3. AuxType'
        BY ZenonT(60), <1>5, Types DEF FinishHot, TypeOK, AuxType, Config
    <2>4. WakeType'
        BY ZenonT(60), <1>5 DEF FinishHot, ConfigurationChanged, TypeOK, WakeType, wakeVars, runVars
    <2> QED
        BY <1>5, <2>1, <2>2, <2>3, <2>4, StoreStutter DEF FinishHot, TypeOK, storeVars
<1> QED BY <1>1, <1>2, <1>3, <1>4, <1>5

\* Cancelling a request, or killing the process under it, keeps its type.
LEMMA CancelledType ==
    ASSUME NEW q \in Request
    PROVE  Cancelled(q) \in Request /\ Dead(q) \in Request
<1>1. Cancelled(q) \in Request
    <2>1. CASE q.stage = "read"
        BY ZenonT(60), <2>1 DEF Cancelled, Request, Stages
    <2>2. CASE q.stage = "write"
        BY ZenonT(60), <2>2 DEF Cancelled, Request, Stages
    <2>3. CASE q.stage \in {"saved", "hot"}
        BY <2>3, Constants DEF Cancelled
    <2>4. CASE q.stage \notin {"read", "write", "saved", "hot"}
        BY ZenonT(60), <2>4 DEF Cancelled
    <2> QED BY <2>1, <2>2, <2>3, <2>4
<1> QED BY <1>1, Constants DEF Dead

\* Ending a run keeps the types.
LEMMA StopType ==
    ASSUME TypeOK, NEW next \in {"stopped", "exited"}, Stop(next)
    PROVE  TypeOK'
<1>1. AdminType'
    BY CancelledType DEF Stop, TypeOK, AdminType
<1>2. RunType'
    BY ZenonT(60) DEF Stop, TypeOK, RunType, liveVars
<1>3. WakeType'
    BY ZenonT(60) DEF Stop, TypeOK, WakeType
<1> QED BY <1>1, <1>2, <1>3, StoreStutter, AuxStutter DEF Stop, TypeOK, storeVars

\* A step of the runtime, of its timer or of the process keeps the types.
LEMMA RuntimeType ==
    TypeOK /\ (TimerFires \/ RuntimeStep \/ CtrlC \/ Kill \/ Restart) => TypeOK'
<1> SUFFICES ASSUME TypeOK, TimerFires \/ RuntimeStep \/ CtrlC \/ Kill \/ Restart
             PROVE  TypeOK'
    OBVIOUS
<1>1. CASE TimerFires
    <2>1. WakeType'
        BY ZenonT(60), <1>1 DEF TimerFires, TypeOK, WakeType, runVars
    <2> QED
        BY <1>1, <2>1, StoreStutter, AdminStutter, RunStutter, AuxStutter
        DEF TimerFires, TypeOK, storeVars, adminVars, runVars, liveVars
<1>2. CASE RunRevision
    <2>1. AuxType'
        BY ZenonT(60), <1>2, Types DEF RunRevision, TypeOK, AuxType, Config
    <2>2. WakeType'
        BY ZenonT(60), <1>2 DEF RunRevision, TypeOK, WakeType
    <2>3. RunType'
        BY <1>2, Types DEF RunRevision, TypeOK, RunType
    <2> QED
        BY <1>2, <2>1, <2>2, <2>3, StoreStutter, AdminStutter
        DEF RunRevision, TypeOK, storeVars, adminVars
<1>3. CASE Reload
    BY <1>3, StopType DEF Reload
<1>4. CASE CtrlC
    BY <1>4, StopType DEF CtrlC
<1>5. CASE LoadNext
    <2>1. AuxType'
        BY ZenonT(60), <1>5 DEF LoadNext, TypeOK, AuxType
    <2>2. RunType'
        BY <1>5, Types DEF LoadNext, StoreLastGood, TypeOK, RunType
    <2> QED
        BY <1>5, <2>1, <2>2, StoreStutter, AdminStutter, WakeStutter
        DEF LoadNext, TypeOK, storeVars, adminVars, wakeVars
<1>6. CASE TakeLastGood
    <2>1. stored' \in Stored
        <3>1. CASE lastGood = None
            BY <1>6, <3>1, Types DEF TakeLastGood
        <3>2. CASE lastGood # None
            <4>1. [rev |-> 0, cfg |-> lastGood.cfg] \in Stored
                BY <3>2, Types DEF Stored
            <4> QED BY ZenonT(60), <1>6, <3>2, <4>1 DEF TakeLastGood
        <3> QED BY <3>1, <3>2
    <2>2. RunType'
        BY ZenonT(60), <1>6, <2>1 DEF TakeLastGood, TypeOK, RunType
    <2> QED
        BY ZenonT(60), <1>6, <2>2, StoreStutter, AdminStutter, WakeStutter, AuxStutter
        DEF TakeLastGood, TypeOK, storeVars, adminVars, wakeVars
<1>7. CASE RollbackRead
    <2>1. stored' \in Stored
        <3>1. [stored EXCEPT !.rev = db.rev + 1] \in Stored
            BY Types DEF Stored
        <3> QED BY ZenonT(60), <1>7, <3>1 DEF RollbackRead
    <2>2. RunType'
        BY ZenonT(60), <1>7, <2>1 DEF RollbackRead, TypeOK, RunType, liveVars
    <2> QED
        BY ZenonT(60), <1>7, <2>2, StoreStutter, AdminStutter, WakeStutter, AuxStutter
        DEF RollbackRead, TypeOK, storeVars, adminVars, wakeVars
<1>8. CASE RollbackWrite
    <2>1. StoreType'
        BY ZenonT(60), <1>8, Types, RecordedType DEF RollbackWrite
    <2>2. RunType'
        BY ZenonT(60), <1>8 DEF RollbackWrite, TypeOK, RunType, liveVars
    <2> QED
        BY ZenonT(60), <1>8, <2>1, <2>2, AdminStutter, WakeStutter, AuxStutter
        DEF RollbackWrite, TypeOK, adminVars, wakeVars
<1>9. CASE Kill
    <2>1. AdminType'
        BY <1>9, CancelledType DEF Kill, TypeOK, AdminType
    <2>2. RunType'
        BY ZenonT(60), <1>9 DEF Kill, TypeOK, RunType, liveVars
    <2> QED
        BY SMTT(60), <1>9, <2>1, <2>2, StoreStutter, WakeStutter, AuxStutter
        DEF Kill, TypeOK, storeVars, wakeVars
<1>10. CASE Restart
    <2>1. AdminType'
        BY <1>10, CancelledType DEF Restart, TypeOK, AdminType
    <2>2. RunType'
        BY ZenonT(60), <1>10, Types DEF Restart, TypeOK, RunType
    <2>3. WakeType'
        BY ZenonT(60), <1>10 DEF Restart, TypeOK, WakeType, wakeVars
    <2>4. AuxType'
        BY ZenonT(60), <1>10 DEF Restart, TypeOK, AuxType
    <2> QED
        BY <1>10, <2>1, <2>2, <2>3, <2>4, StoreStutter DEF Restart, TypeOK, storeVars
<1> QED
    BY <1>1, <1>2, <1>3, <1>4, <1>5, <1>6, <1>7, <1>8, <1>9, <1>10 DEF RuntimeStep

\* Every behaviour of the model keeps its types, and the history always holds
\* the current revision: save_config writes both in one batch.
THEOREM TypeCorrect == Spec => []TypeOK
<1>1. Init => TypeOK
    <2> SUFFICES ASSUME Init PROVE TypeOK
        OBVIOUS
    <2>1. StoreType
        BY SMTT(60), Constants DEF Init, StoreType, Stored
    <2>2. AdminType
        BY SMTT(60), Constants DEF Init, AdminType
    <2>3. RunType
        BY SMTT(60), Constants DEF Init, RunType, Stored
    <2>4. WakeType
        BY ZenonT(60) DEF Init, WakeType
    <2>5. AuxType
        BY Constants DEF Init, AuxType
    <2> QED BY <2>1, <2>2, <2>3, <2>4, <2>5 DEF TypeOK
<1>2. TypeOK /\ [Next]_vars => TypeOK'
    <2> SUFFICES ASSUME TypeOK, [Next]_vars PROVE TypeOK'
        OBVIOUS
    <2>1. CASE UNCHANGED vars
        BY <2>1, StoreStutter, AdminStutter, RunStutter, WakeStutter, AuxStutter
        DEF TypeOK, vars, storeVars, adminVars, runVars, liveVars, wakeVars
    <2> QED
        BY <2>1, AdminStartType, AdminStepType, RuntimeType DEF Next
<1> QED BY <1>1, <1>2, PTL DEF Spec

-----------------------------------------------------------------------------
(* The mutex. *)

\* How each step of a request changes the requests.
LEMMA Requests ==
    ASSUME TypeOK, NEW a \in Admins
    PROVE  /\ GetConfig(a) =>
                req'[a].stage = "editing" /\ req'[a].seen = db
           /\ \A from, kind, cfg : Begin(a, from, kind, cfg) =>
                /\ req'[a].stage = "read" /\ req'[a].kind = kind /\ req'[a].seen = req[a].seen
                /\ req'[a].save.cfg = cfg
           /\ SaveRead(a) =>
                /\ req'[a].stage = IF req[a].stage = "read" THEN "write" ELSE "detached write"
                /\ req'[a].kind = req[a].kind /\ req'[a].seen = req[a].seen
                /\ req'[a].save.rev = db.rev + 1 /\ req'[a].save.cfg = req[a].save.cfg
           /\ SaveWrite(a) =>
                IF req[a].stage = "write"
                THEN /\ req'[a].stage = "saved" /\ req'[a].seen = req[a].seen
                     /\ req'[a].save = req[a].save
                ELSE req'[a] = NoRequest
           /\ ApplyHot(a) =>
                /\ req'[a].stage = "hot" /\ req'[a].seen = req[a].seen
                /\ req'[a].save = req[a].save
           /\ (ApplyByReload(a) \/ FinishHot(a)) => req'[a] = NoRequest
           /\ \/ GetConfig(a) \/ SaveRead(a) \/ SaveWrite(a) \/ ApplyHot(a)
              \/ ApplyByReload(a) \/ FinishHot(a)
              \/ \E from, kind, cfg : Begin(a, from, kind, cfg)
              => \A b \in Admins \ {a} : req'[b] = req[b]
<1>0. req[a] \in Request /\ req \in [Admins -> Request] /\ req[a].save \in Stored
    BY Types
<1>1. ASSUME NEW from, NEW kind, NEW cfg, Begin(a, from, kind, cfg)
      PROVE  /\ req'[a].stage = "read" /\ req'[a].kind = kind /\ req'[a].seen = req[a].seen
             /\ req'[a].save.cfg = cfg
             /\ \A b \in Admins \ {a} : req'[b] = req[b]
    BY <1>0, <1>1 DEF Begin, Request
<1>2. ASSUME GetConfig(a)
      PROVE  /\ req'[a].stage = "editing" /\ req'[a].seen = db
             /\ \A b \in Admins \ {a} : req'[b] = req[b]
    BY <1>0, <1>2 DEF GetConfig, NoRequest
<1>3. ASSUME SaveRead(a)
      PROVE  /\ req'[a].stage = IF req[a].stage = "read" THEN "write" ELSE "detached write"
             /\ req'[a].kind = req[a].kind /\ req'[a].seen = req[a].seen
             /\ req'[a].save.rev = db.rev + 1 /\ req'[a].save.cfg = req[a].save.cfg
             /\ \A b \in Admins \ {a} : req'[b] = req[b]
    <2> DEFINE st == IF req[a].stage = "read" THEN "write" ELSE "detached write"
               new == [req[a] EXCEPT !.stage = st, !.save = [req[a].save EXCEPT !.rev = db.rev + 1]]
    <2>1. req' = [req EXCEPT ![a] = new]
        BY <1>3, <1>0, Zenon DEF SaveRead
    <2>2. /\ new.stage = st /\ new.kind = req[a].kind /\ new.seen = req[a].seen
          /\ new.save.rev = db.rev + 1 /\ new.save.cfg = req[a].save.cfg
        BY <1>0 DEF Request, Stored
    <2> QED BY <1>0, <2>1, <2>2
<1>4. ASSUME SaveWrite(a)
      PROVE  /\ IF req[a].stage = "write"
                THEN /\ req'[a].stage = "saved" /\ req'[a].seen = req[a].seen
                     /\ req'[a].save = req[a].save
                ELSE req'[a] = NoRequest
             /\ \A b \in Admins \ {a} : req'[b] = req[b]
    BY ZenonT(60), <1>0, <1>4 DEF SaveWrite, Request
<1>5. ASSUME ApplyHot(a)
      PROVE  /\ req'[a].stage = "hot" /\ req'[a].seen = req[a].seen
             /\ req'[a].save = req[a].save
             /\ \A b \in Admins \ {a} : req'[b] = req[b]
    BY SMTT(60), <1>0, <1>5 DEF ApplyHot, Request
<1>6. ASSUME ApplyByReload(a) \/ FinishHot(a)
      PROVE  req'[a] = NoRequest /\ \A b \in Admins \ {a} : req'[b] = req[b]
    BY SMTT(60), <1>0, <1>6 DEF ApplyByReload, FinishHot, Done
<1> QED BY ZenonT(60), <1>1, <1>2, <1>3, <1>4, <1>5, <1>6

\* How ending a run changes the requests.
LEMMA StoppedRequests ==
    ASSUME NEW q \in Request
    PROVE  /\ Cancelled(q).stage \notin Held /\ Dead(q).stage \notin Held
           /\ Cancelled(q).seen \in {q.seen, Unset} /\ Dead(q).seen \in {q.seen, Unset}
<1>1. Cancelled(q).stage \notin Held /\ Cancelled(q).seen \in {q.seen, Unset}
    <2>1. CASE q.stage = "read"
        BY ZenonT(60), <2>1 DEF Cancelled, Request, Held
    <2>2. CASE q.stage = "write"
        BY ZenonT(60), <2>2 DEF Cancelled, Request, Held
    <2>3. CASE q.stage \in {"saved", "hot"}
        BY <2>3 DEF Cancelled, NoRequest, Held
    <2>4. CASE q.stage \notin {"read", "write", "saved", "hot"}
        BY <2>4 DEF Cancelled, Held
    <2> QED BY SMTT(60), <2>1, <2>2, <2>3, <2>4
<1> QED BY SMTT(60), <1>1 DEF Dead, NoRequest, Held

\* What the three kinds of configuration write have in common.
LEMMA BeginOf ==
    ASSUME NEW a \in Admins,
           \/ \E cfg \in Config : PutConfig(a, cfg)
           \/ \E topo \in Topologies : ListenerOperation(a, topo)
           \/ \E r \in DOMAIN history : RollbackConfig(a, r)
    PROVE  \E from \in {"idle", "editing"}, kind \in {"put", "edit"} : \E cfg :
                /\ Begin(a, from, kind, cfg)
                /\ kind = "put" => req[a].seen.rev = db.rev
<1>1. ASSUME NEW cfg \in Config, PutConfig(a, cfg)
      PROVE  Begin(a, "editing", "put", cfg) /\ req[a].seen.rev = db.rev
    BY <1>1 DEF PutConfig
<1>2. ASSUME NEW topo \in Topologies, ListenerOperation(a, topo)
      PROVE  Begin(a, "idle", "edit", [db.cfg EXCEPT !.topo = topo])
    BY <1>2 DEF ListenerOperation
<1>3. ASSUME NEW r \in DOMAIN history, RollbackConfig(a, r)
      PROVE  Begin(a, "idle", "edit", history[r])
    BY <1>3 DEF RollbackConfig
<1> QED BY ZenonT(60), <1>1, <1>2, <1>3

\* The mutex is held from the first read of the store to the answer, by one
\* request at a time, and only while a revision serves.
LEMMA MutexStep == TypeOK /\ MutexHeld /\ [Next]_vars => MutexHeld'
<1> SUFFICES ASSUME TypeOK, MutexHeld, [Next]_vars PROVE MutexHeld'
    OBVIOUS
<1> USE DEF MutexHeld
<1>0. None \notin Admins /\ NoRequest.stage \notin Held
    BY SMTT(60), ConstantsAssumption DEF NoRequest, Held
<1>1. ASSUME NEW a \in Admins, GetConfig(a) PROVE MutexHeld'
    <2>1. req'[a].stage = "editing" /\ \A b \in Admins \ {a} : req'[b] = req[b]
        BY ZenonT(60), <1>1, Requests
    <2>2. req[a].stage \in {"idle", "editing"} /\ writer' = writer /\ pc' = pc
        BY SMTT(60), <1>1 DEF GetConfig, runVars
    <2> QED BY SMTT(60), <2>1, <2>2 DEF Held
<1>2. ASSUME NEW a \in Admins, NEW from \in {"idle", "editing"}, NEW kind, NEW cfg,
             Begin(a, from, kind, cfg)
      PROVE  MutexHeld'
    <2>1. req'[a].stage = "read" /\ \A b \in Admins \ {a} : req'[b] = req[b]
        BY ZenonT(60), <1>2, Requests
    <2>2. writer = None /\ writer' = a /\ pc = "serving" /\ pc' = pc
        BY <1>2 DEF Begin, runVars
    <2> QED BY SMTT(60), <1>0, <2>1, <2>2 DEF Held
<1>3. CASE CertificateChanged \/ \E r \in DOMAIN history, clear \in BOOLEAN : ImportDatabase(r, clear)
    BY ZenonT(60), <1>3 DEF CertificateChanged, ImportDatabase, adminVars, runVars
<1>4. ASSUME NEW a \in Admins, SaveRead(a) \/ SaveWrite(a) \/ ApplyHot(a) PROVE MutexHeld'
    <2>1. req'[a].stage \in Held <=> req[a].stage \in Held
        <3>1. CASE SaveRead(a)
            <4>1. req[a].stage \in {"read", "detached read"}
                BY ZenonT(60), <3>1 DEF SaveRead
            <4>2. req'[a].stage = IF req[a].stage = "read" THEN "write" ELSE "detached write"
                BY ZenonT(60), <3>1, Requests
            <4> QED BY ZenonT(60), <4>1, <4>2 DEF Held
        <3>2. CASE SaveWrite(a)
            BY ZenonT(60), <3>2, <1>0, Requests DEF SaveWrite, Held
        <3>3. CASE ApplyHot(a)
            BY ZenonT(60), <3>3, Requests DEF ApplyHot, Held
        <3> QED BY <1>4, <3>1, <3>2, <3>3
    <2>2. \A b \in Admins \ {a} : req'[b] = req[b]
        BY ZenonT(60), <1>4, Requests
    <2>3. writer' = writer /\ pc' = pc
        BY ZenonT(60), <1>4 DEF SaveRead, SaveWrite, ApplyHot, runVars
    <2> QED BY <2>1, <2>2, <2>3
<1>5. ASSUME NEW a \in Admins, ApplyByReload(a) \/ FinishHot(a) PROVE MutexHeld'
    <2>1. req'[a].stage \notin Held /\ \A b \in Admins \ {a} : req'[b] = req[b]
        BY ZenonT(60), <1>5, <1>0, Requests
    <2>2. writer = a /\ writer' = None
        BY SMTT(60), <1>5 DEF ApplyByReload, FinishHot, Done, Held
    <2> QED BY ZenonT(60), <1>0, <2>1, <2>2
<1>6. CASE TimerFires \/ RunRevision \/ LoadNext \/ TakeLastGood \/ RollbackRead \/ RollbackWrite
    BY ZenonT(60), <1>6 DEF TimerFires, RunRevision, LoadNext, TakeLastGood, RollbackRead, RollbackWrite,
                adminVars, runVars
<1>7. CASE Reload \/ CtrlC \/ Kill \/ Restart
    <2>1. \A a \in Admins : req'[a].stage \notin Held
        BY SMTT(60), <1>7, Types, StoppedRequests DEF Reload, CtrlC, Stop, Kill, Restart
    <2>2. writer' = None
        BY SMTT(60), <1>7 DEF Reload, CtrlC, Stop, Kill, Restart
    <2> QED BY SMTT(60), <1>0, <2>1, <2>2
<1>8. CASE UNCHANGED vars
    BY <1>8 DEF vars, adminVars, runVars
<1> QED
    BY ZenonT(60), <1>1, <1>2, <1>3, <1>4, <1>5, <1>6, <1>7, <1>8, BeginOf
    DEF Next, AdminStart, AdminStep, RuntimeStep

\* put_config, listener_operation and rollback_config exclude one another, and
\* a reload leaves no holder of the mutex behind.
THEOREM MutualExclusion == Spec => []MutexHeld
<1>1. Init => MutexHeld
    BY ConstantsAssumption DEF Init, MutexHeld, NoRequest, Held
<1> QED BY <1>1, TypeCorrect, MutexStep, PTL DEF Spec

-----------------------------------------------------------------------------
(* Revisions. *)

\* Foreign writes are not forgotten.
LEMMA ForeignStays == TypeOK /\ [Next]_vars /\ aux.foreign => aux'.foreign
<1> SUFFICES ASSUME TypeOK, [Next]_vars, aux.foreign PROVE aux'.foreign
    OBVIOUS
<1>0. DOMAIN aux = {"served", "proven", "working", "foreign", "stray", "unproven"}
    BY DEF TypeOK, AuxType
<1>1. CASE AdminStart
    BY ZenonT(60), <1>0, <1>1 DEF AdminStart, GetConfig, PutConfig, ListenerOperation, RollbackConfig, Begin,
                CertificateChanged, ImportDatabase
<1>2. CASE AdminStep
    BY ZenonT(60), <1>0, <1>2 DEF AdminStep, SaveRead, SaveWrite, ApplyByReload, ApplyHot, FinishHot
<1>3. CASE TimerFires \/ RuntimeStep
    BY ZenonT(60), <1>0, <1>3 DEF TimerFires, RuntimeStep, RunRevision, Reload, Stop, LoadNext, TakeLastGood,
                RollbackRead, RollbackWrite
<1>4. CASE CtrlC \/ Kill \/ Restart \/ UNCHANGED vars
    BY ZenonT(60), <1>0, <1>4 DEF CtrlC, Stop, Kill, Restart, vars
<1> QED BY <1>1, <1>2, <1>3, <1>4 DEF Next

\* The store's own revision, no revision, and what a new revision leaves behind.
LEMMA AtMost ==
    ASSUME TypeOK
    PROVE  /\ AtMostDb(db)
           /\ db.rev >= 1 => AtMostDb(Unset)
           /\ db'.rev = db.rev + 1 => \A s \in Stored : AtMostDb(s) => AtMostDb(s)'
<1>1. db.rev \in Nat
    BY SMTT(60), Types
<1> QED BY SMTT(60), <1>1 DEF AtMostDb, Unset, Stored

\* A step that leaves the store, and the requests, alone.
LEMMA RequestsStutter ==
    ASSUME \A a \in Admins : FreshRequest(a), UNCHANGED <<db, req>>
    PROVE  \A a \in Admins : FreshRequest(a)'
BY ZenonT(60) DEF FreshRequest, AtMostDb

\* A step that leaves the store alone and drops the requests in flight.
LEMMA RequestsStopped ==
    ASSUME TypeOK, db.rev >= 1, \A a \in Admins : FreshRequest(a), db' = db,
           \/ req' = [a \in Admins |-> Cancelled(req[a])]
           \/ req' = [a \in Admins |-> Dead(req[a])]
    PROVE  \A a \in Admins : FreshRequest(a)'
<1> SUFFICES ASSUME NEW a \in Admins PROVE FreshRequest(a)'
    OBVIOUS
<1>1. req'[a].stage \notin Held /\ req'[a].seen \in {req[a].seen, Unset}
    BY ZenonT(60), Types, StoppedRequests
<1>2. AtMostDb(Unset)
    BY Types DEF AtMostDb, Unset
<1>3. AtMostDb(req[a].seen)
    BY ZenonT(60) DEF FreshRequest
<1> QED BY ZenonT(60), <1>1, <1>2, <1>3 DEF FreshRequest, AtMostDb, Held

\* Revisions still name one configuration each after a step.
LEMMA RevisionStep ==
    TypeOK /\ TypeOK' /\ MutexHeld /\ RevisionInv /\ [Next]_vars => RevisionInv'
<1> SUFFICES ASSUME TypeOK, TypeOK', MutexHeld, db.rev >= 1, \A a \in Admins : FreshRequest(a),
                    FreshRun, [Next]_vars, ~aux'.foreign
             PROVE  db'.rev >= 1 /\ (\A a \in Admins : FreshRequest(a)') /\ FreshRun'
    BY SMTT(60), ForeignStays DEF RevisionInv
<1>1. ASSUME NEW a \in Admins, GetConfig(a)
      PROVE  db'.rev >= 1 /\ (\A b \in Admins : FreshRequest(b)') /\ FreshRun'
    <2>1. /\ req'[a].stage = "editing" /\ req'[a].seen = db
          /\ \A b \in Admins \ {a} : req'[b] = req[b]
        BY ZenonT(60), <1>1, Requests
    <2>2. db' = db /\ UNCHANGED <<pc, stored, lastGood>>
        BY <1>1 DEF GetConfig, storeVars, runVars, liveVars
    <2>3. AtMostDb(req[a].seen)'
        BY ZenonT(60), <2>1, <2>2, AtMost DEF AtMostDb
    <2> QED BY ZenonT(60), <2>1, <2>2, <2>3 DEF FreshRequest, FreshRun, AtMostDb
<1>2. ASSUME NEW a \in Admins, NEW from \in {"idle", "editing"}, NEW kind \in {"put", "edit"}, NEW cfg,
             Begin(a, from, kind, cfg), kind = "put" => req[a].seen.rev = db.rev
      PROVE  db'.rev >= 1 /\ (\A b \in Admins : FreshRequest(b)') /\ FreshRun'
    <2>1. /\ req'[a].stage = "read" /\ req'[a].kind = kind /\ req'[a].seen = req[a].seen
          /\ \A b \in Admins \ {a} : req'[b] = req[b]
        BY ZenonT(60), <1>2, Requests
    <2>2. db' = db /\ UNCHANGED <<pc, stored, lastGood>>
        BY SMTT(60), <1>2 DEF Begin, storeVars, runVars, liveVars
    <2> QED BY ZenonT(60), <1>2, <2>1, <2>2 DEF FreshRequest, FreshRun, AtMostDb
<1>3. CASE CertificateChanged
    BY ZenonT(60), <1>3, RequestsStutter
    DEF CertificateChanged, storeVars, adminVars, runVars, liveVars, FreshRun, AtMostDb
<1>4. ASSUME NEW r \in DOMAIN history, NEW clear \in BOOLEAN, ImportDatabase(r, clear)
      PROVE  FALSE
    BY SMTT(60), <1>4 DEF ImportDatabase, TypeOK, AuxType
<1>5. ASSUME NEW a \in Admins, SaveRead(a)
      PROVE  db'.rev >= 1 /\ (\A b \in Admins : FreshRequest(b)') /\ FreshRun'
    <2>1. /\ req[a].stage \in {"read", "detached read"}
          /\ db' = db /\ UNCHANGED <<pc, stored, lastGood>>
        BY ZenonT(60), <1>5 DEF SaveRead, storeVars, runVars, liveVars
    <2>2. /\ req'[a].stage = IF req[a].stage = "read" THEN "write" ELSE "detached write"
          /\ req'[a].kind = req[a].kind /\ req'[a].seen = req[a].seen
          /\ req'[a].save.rev = db.rev + 1
          /\ \A b \in Admins \ {a} : req'[b] = req[b]
        BY ZenonT(60), <1>5, Requests
    <2>3. FreshRun'
        BY ZenonT(60), <2>1 DEF FreshRun, AtMostDb
    <2>4. FreshRequest(a)'
        BY ZenonT(60), <2>1, <2>2 DEF FreshRequest, AtMostDb
    <2>5. ASSUME NEW b \in Admins \ {a} PROVE FreshRequest(b)'
        <3>1. req'[b] = req[b] /\ db' = db
            BY ZenonT(60), <2>1, <2>2
        <3>2. FreshRequest(b)
            OBVIOUS
        <3> QED BY SMTT(60), <3>1, <3>2 DEF FreshRequest, AtMostDb
    <2> QED BY ZenonT(60), <2>1, <2>3, <2>4, <2>5
<1>6. ASSUME NEW a \in Admins, SaveWrite(a)
      PROVE  db'.rev >= 1 /\ (\A b \in Admins : FreshRequest(b)') /\ FreshRun'
    <2>1. req[a].stage = "write"
        BY ZenonT(60), <1>6 DEF SaveWrite, TypeOK, AuxType
    <2>2. /\ db' = req[a].save /\ db'.rev = db.rev + 1
          /\ UNCHANGED <<pc, stored, lastGood>>
        BY <1>6, <2>1 DEF SaveWrite, runVars, liveVars, FreshRequest
    <2>3. writer = a /\ pc = "serving" /\ \A b \in Admins \ {a} : req[b].stage \notin Held
        BY SMTT(60), <2>1, ConstantsAssumption DEF MutexHeld, Held
    <2>4. /\ req'[a].stage = "saved" /\ req'[a].seen = req[a].seen /\ req'[a].save = req[a].save
          /\ \A b \in Admins \ {a} : req'[b] = req[b]
        BY ZenonT(60), <1>6, <2>1, Requests
    <2>6. \A b \in Admins : FreshRequest(b)'
        <3>1. \A b \in Admins : req'[b].seen = req[b].seen /\ req[b].seen \in Stored
            BY <2>4, Types
        <3>2. \A b \in Admins : AtMostDb(req[b].seen)
            BY DEF FreshRequest
        <3>3. \A b \in Admins : AtMostDb(req[b].seen)'
            BY SMTT(60), <3>1, <3>2, <2>2, AtMost DEF AtMostDb
        <3> QED BY SMTT(60), <2>2, <2>3, <2>4, <3>3 DEF FreshRequest, Held
    <2>7. FreshRun'
        BY SMTT(60), <2>2, <2>3, Types DEF FreshRun, AtMostDb
    <2> QED BY <2>2, <2>6, <2>7, Types
<1>7. ASSUME NEW a \in Admins, ApplyByReload(a)
      PROVE  db'.rev >= 1 /\ (\A b \in Admins : FreshRequest(b)') /\ FreshRun'
    <2>1. req'[a] = NoRequest /\ \A b \in Admins \ {a} : req'[b] = req[b]
        BY ZenonT(60), <1>7, Requests
    <2>2. db' = db /\ UNCHANGED <<pc, stored, lastGood>>
        BY SMTT(60), <1>7 DEF ApplyByReload, storeVars, runVars, liveVars
    <2>3. AtMostDb(req[a].seen)' /\ req'[a].stage = "idle"
        BY SMTT(60), <2>1, <2>2, AtMost DEF AtMostDb, NoRequest
    <2> QED BY ZenonT(60), <2>1, <2>2, <2>3 DEF FreshRequest, FreshRun, AtMostDb
<1>8. ASSUME NEW a \in Admins, ApplyHot(a)
      PROVE  db'.rev >= 1 /\ (\A b \in Admins : FreshRequest(b)') /\ FreshRun'
    <2>1. /\ req'[a].stage = "hot" /\ req'[a].seen = req[a].seen /\ req'[a].save = req[a].save
          /\ \A b \in Admins \ {a} : req'[b] = req[b]
        BY ZenonT(60), <1>8, Requests
    <2>2. req[a].stage = "saved" /\ db' = db /\ UNCHANGED <<pc, stored, lastGood>>
        BY <1>8 DEF ApplyHot, storeVars, runVars, liveVars
    <2> QED BY ZenonT(60), <2>1, <2>2 DEF FreshRequest, FreshRun, AtMostDb
<1>9. ASSUME NEW a \in Admins, FinishHot(a)
      PROVE  db'.rev >= 1 /\ (\A b \in Admins : FreshRequest(b)') /\ FreshRun'
    <2>1. req'[a] = NoRequest /\ \A b \in Admins \ {a} : req'[b] = req[b]
        BY ZenonT(60), <1>9, Requests
    <2>2. req[a].stage = "hot" /\ db' = db /\ UNCHANGED <<pc, stored>>
        BY <1>9 DEF FinishHot, storeVars, runVars
    <2>3. lastGood' \in {lastGood, db}
        BY SMTT(60), <1>9, <2>2 DEF FinishHot, StoreLastGood, FreshRequest
    <2>4. AtMostDb(req[a].seen)' /\ req'[a].stage = "idle"
        BY <2>1, <2>2, AtMost DEF AtMostDb, NoRequest
    <2>5. lastGood' # None => AtMostDb(lastGood)'
        BY ZenonT(60), <2>2, <2>3, AtMost DEF FreshRun, AtMostDb
    <2>6. FreshRequest(a)'
        BY SMTT(60), <2>4 DEF FreshRequest
    <2>7. \A b \in Admins \ {a} : FreshRequest(b)'
        BY <2>1, <2>2 DEF FreshRequest, AtMostDb
    <2>8. FreshRun'
        BY ZenonT(60), <2>2, <2>5 DEF FreshRun, AtMostDb
    <2> QED BY <2>2, <2>6, <2>7, <2>8
<1>10. CASE TimerFires
    BY ZenonT(60), <1>10, RequestsStutter
    DEF TimerFires, storeVars, adminVars, runVars, liveVars, FreshRun, AtMostDb
<1>11. CASE RunRevision
    BY <1>11, RequestsStutter, Types DEF RunRevision, storeVars, adminVars, FreshRun, AtMostDb
<1>12. CASE Reload \/ CtrlC
    <2>1. /\ db' = db /\ UNCHANGED <<stored, lastGood>> /\ pc = "serving" /\ pc' \in {"stopped", "exited"}
          /\ req' = [a \in Admins |-> Cancelled(req[a])]
        BY <1>12 DEF Reload, CtrlC, Stop, storeVars, liveVars
    <2> QED BY ZenonT(60), <2>1, RequestsStopped DEF FreshRun, AtMostDb
<1>13. CASE LoadNext
    <2>1. lastGood' \in {lastGood, stored}
        BY <1>13 DEF LoadNext, StoreLastGood
    <2>2. pc = "stopped" /\ pc' = "apply" /\ stored' = db /\ UNCHANGED <<db, req>>
        BY <1>13 DEF LoadNext, storeVars, adminVars
    <2> QED BY <2>1, <2>2, RequestsStutter DEF FreshRun, AtMostDb
<1>14. CASE TakeLastGood
    BY ZenonT(60), <1>14, RequestsStutter DEF TakeLastGood, storeVars, adminVars, FreshRun
<1>15. CASE RollbackRead
    <2>1. stored'.rev = db.rev + 1
        BY ZenonT(60), <1>15, Types DEF RollbackRead, Stored
    <2> QED
        BY ZenonT(60), <1>15, <2>1, RequestsStutter
        DEF RollbackRead, storeVars, adminVars, liveVars, FreshRun, AtMostDb
<1>16. CASE RollbackWrite
    <2>1. /\ pc = "rollback write" /\ pc' = "apply" /\ db' = stored /\ UNCHANGED <<req, stored, lastGood>>
        BY ZenonT(60), <1>16 DEF RollbackWrite, adminVars, liveVars
    <2>2. db'.rev = db.rev + 1
        BY ZenonT(60), <2>1 DEF FreshRun
    <2>3. \A a \in Admins : req[a].stage \notin Held
        BY ZenonT(60), <2>1, ConstantsAssumption DEF MutexHeld
    <2>4. \A a \in Admins : AtMostDb(req[a].seen) /\ req[a].seen \in Stored
        BY SMTT(60), Types DEF FreshRequest
    <2>5. \A a \in Admins : AtMostDb(req[a].seen)'
        BY ZenonT(60), <2>1, <2>2, <2>4, AtMost DEF AtMostDb
    <2>6. \A a \in Admins : FreshRequest(a)'
        BY ZenonT(60), <2>1, <2>3, <2>5 DEF FreshRequest, Held
    <2>7. lastGood' # None => AtMostDb(lastGood)'
        BY ZenonT(60), <2>1, <2>2, AtMost, Types DEF FreshRun, AtMostDb
    <2>8. db'.rev >= 1
        BY <2>2, Types
    <2> QED BY ZenonT(60), <2>1, <2>6, <2>7, <2>8 DEF FreshRun
<1>17. CASE Kill
    <2>1. /\ db' = db /\ UNCHANGED <<stored, lastGood>> /\ pc' = "exited"
          /\ req' = [a \in Admins |-> Dead(req[a])]
        BY <1>17 DEF Kill, storeVars, liveVars
    <2> QED BY ZenonT(60), <2>1, RequestsStopped DEF FreshRun, AtMostDb
<1>18. CASE Restart
    <2>1. /\ db' = db /\ stored' = db /\ lastGood' = None /\ pc' = "apply"
          /\ req' = [a \in Admins |-> Dead(req[a])]
        BY <1>18 DEF Restart, storeVars
    <2> QED BY ZenonT(60), <2>1, RequestsStopped DEF FreshRun
<1>19. CASE UNCHANGED vars
    BY ZenonT(60), <1>19, RequestsStutter
    DEF vars, storeVars, adminVars, runVars, liveVars, FreshRun, AtMostDb
<1> QED
    BY ZenonT(60), <1>1, <1>2, <1>3, <1>4, <1>5, <1>6, <1>7, <1>8, <1>9, <1>10, <1>11, <1>12, <1>13, <1>14,
       <1>15, <1>16, <1>17, <1>18, <1>19, BeginOf
    DEF Next, AdminStart, AdminStep, RuntimeStep

\* As long as every write goes through the mutex, a revision number names one
\* configuration, in the store, in every request and in the rollback slot.
THEOREM RevisionsAgree == Spec => []RevisionInv
<1>1. Init => RevisionInv
    <2> SUFFICES ASSUME Init PROVE RevisionInv
        OBVIOUS
    <2>1. /\ db = [rev |-> 1, cfg |-> InitialConfig] /\ stored = db /\ pc = "apply"
          /\ lastGood = None /\ req = [a \in Admins |-> NoRequest]
        BY DEF Init
    <2>2. FreshRun /\ db.rev >= 1
        BY SMTT(60), <2>1 DEF FreshRun
    <2>3. \A a \in Admins : FreshRequest(a)
        BY <2>1 DEF FreshRequest, AtMostDb, NoRequest, Unset
    <2> QED BY <2>2, <2>3 DEF RevisionInv
<1> QED BY <1>1, TypeCorrect, MutualExclusion, RevisionStep, PTL DEF Spec

\* A PUT only replaces the configuration its author had read: put_config's
\* revision check and its mutex leave no room for a lost update.
THEOREM UpdatesAreNotLost == Spec => NoLostUpdate
<1>1. RevisionInv =>
        \A a \in Admins :
            req[a].stage = "write" /\ req[a].kind = "put" /\ req'[a].stage = "saved" /\ ~aux.foreign
                => db = req[a].seen
    BY SMTT(60) DEF RevisionInv, FreshRequest
<1> QED BY <1>1, RevisionsAgree, PTL DEF NoLostUpdate

-----------------------------------------------------------------------------
(* The rollback target. *)

\* The history record: what a step does to the fields the invariants use.
LEMMA AuxOf ==
    ASSUME TypeOK
    PROVE  /\ \A a \in Admins : SaveWrite(a) =>
                /\ aux'.working = aux.working /\ aux'.proven = aux.proven
                /\ aux'.served = aux.served /\ aux'.unproven = aux.unproven
                /\ ~aux'.foreign \/ ~aux'.stray => req[a].stage = "write"
           /\ \A r, clear : ImportDatabase(r, clear) =>
                /\ aux'.working = aux.working /\ aux'.proven = aux.proven
                /\ aux'.served = aux.served /\ aux'.unproven = aux.unproven
                /\ aux'.stray = aux.stray /\ aux'.foreign
           /\ RunRevision =>
                IF Startable(stored.cfg)
                THEN /\ aux'.served /\ aux'.working = stored.cfg
                     /\ aux'.proven = aux.proven \cup {stored.cfg.topo}
                     /\ aux'.foreign = aux.foreign /\ aux'.stray = aux.stray
                     /\ aux'.unproven = aux.unproven
                ELSE aux' = aux
           /\ LoadNext =>
                /\ aux'.working = aux.working /\ aux'.proven = aux.proven
                /\ aux'.served = aux.served /\ aux'.unproven = aux.unproven
                /\ aux'.foreign = aux.foreign
           /\ Restart =>
                /\ ~aux'.served /\ aux'.proven = {} /\ ~aux'.unproven
<1>0. DOMAIN aux = {"served", "proven", "working", "foreign", "stray", "unproven"}
    BY DEF TypeOK, AuxType
<1>1. ASSUME NEW a \in Admins, SaveWrite(a)
      PROVE  /\ aux'.working = aux.working /\ aux'.proven = aux.proven
             /\ aux'.served = aux.served /\ aux'.unproven = aux.unproven
             /\ ~aux'.foreign \/ ~aux'.stray => req[a].stage = "write"
    BY ZenonT(60), <1>0, <1>1 DEF SaveWrite
<1>2. ASSUME NEW r, NEW clear, ImportDatabase(r, clear)
      PROVE  /\ aux'.working = aux.working /\ aux'.proven = aux.proven
             /\ aux'.served = aux.served /\ aux'.unproven = aux.unproven
             /\ aux'.stray = aux.stray /\ aux'.foreign
    BY <1>0, <1>2 DEF ImportDatabase
<1>3. ASSUME RunRevision
      PROVE  IF Startable(stored.cfg)
             THEN /\ aux'.served /\ aux'.working = stored.cfg
                  /\ aux'.proven = aux.proven \cup {stored.cfg.topo}
                  /\ aux'.foreign = aux.foreign /\ aux'.stray = aux.stray
                  /\ aux'.unproven = aux.unproven
             ELSE aux' = aux
    BY <1>0, <1>3 DEF RunRevision
<1>4. ASSUME LoadNext
      PROVE  /\ aux'.working = aux.working /\ aux'.proven = aux.proven
             /\ aux'.served = aux.served /\ aux'.unproven = aux.unproven
             /\ aux'.foreign = aux.foreign
    BY <1>0, <1>4 DEF LoadNext
<1>5. ASSUME Restart PROVE ~aux'.served /\ aux'.proven = {} /\ ~aux'.unproven
    BY SMTT(60), <1>0, <1>5 DEF Restart
<1> QED BY SMTT(60), <1>1, <1>2, <1>3, <1>4, <1>5

\* The steps that touch neither the run, nor the slot, nor what is known to work.
LEMMA RunUntouched ==
    ASSUME TypeOK
    PROVE  \/ AdminStart
           \/ \E a \in Admins : SaveRead(a) \/ SaveWrite(a) \/ ApplyByReload(a) \/ ApplyHot(a)
           \/ TimerFires
           \/ UNCHANGED vars
           => /\ UNCHANGED <<pc, stored, lastGood, accounting>>
              /\ aux'.working = aux.working /\ aux'.proven = aux.proven
              /\ aux'.served = aux.served /\ aux'.unproven = aux.unproven
<1>1. CASE AdminStart
    <2>1. ASSUME NEW a \in Admins, GetConfig(a) PROVE UNCHANGED <<pc, stored, lastGood, accounting, aux>>
        BY <2>1 DEF GetConfig, runVars, liveVars
    <2>2. ASSUME NEW a \in Admins, NEW from, NEW kind, NEW cfg, Begin(a, from, kind, cfg)
          PROVE  UNCHANGED <<pc, stored, lastGood, accounting, aux>>
        BY <2>2 DEF Begin, runVars, liveVars
    <2>3. CertificateChanged => UNCHANGED <<pc, stored, lastGood, accounting, aux>>
        BY DEF CertificateChanged, runVars, liveVars
    <2>4. ASSUME NEW r, NEW clear, ImportDatabase(r, clear)
          PROVE  UNCHANGED <<pc, stored, lastGood, accounting>>
        BY <2>4 DEF ImportDatabase, runVars, liveVars
    <2> QED BY <1>1, <2>1, <2>2, <2>3, <2>4, AuxOf, BeginOf DEF AdminStart
<1>2. ASSUME NEW a \in Admins, SaveRead(a) \/ ApplyByReload(a) \/ ApplyHot(a)
      PROVE  UNCHANGED <<pc, stored, lastGood, accounting, aux>>
    BY ZenonT(60), <1>2 DEF SaveRead, ApplyByReload, ApplyHot, runVars, liveVars
<1>3. ASSUME NEW a \in Admins, SaveWrite(a)
      PROVE  UNCHANGED <<pc, stored, lastGood, accounting>>
    BY ZenonT(60), <1>3 DEF SaveWrite, runVars, liveVars
<1>4. TimerFires \/ UNCHANGED vars => UNCHANGED <<pc, stored, lastGood, accounting, aux>>
    BY DEF TimerFires, vars, runVars, liveVars
<1> QED BY SMTT(60), <1>1, <1>2, <1>3, <1>4, AuxOf

\* What is known to work stays in the slot, or in service.
LEMMA WorkingStep ==
    TypeOK /\ TypeOK' /\ MutexHeld /\ RevisionInv /\ WorkingInv /\ [Next]_vars => WorkingInv'
<1> SUFFICES ASSUME TypeOK, TypeOK', MutexHeld, RevisionInv, WorkingInv, [Next]_vars,
                    ~aux.foreign, ~aux'.foreign
             PROVE  WorkingInv'
    BY ZenonT(60), ForeignStays DEF WorkingInv
<1>1. CASE AdminStart \/ TimerFires \/ UNCHANGED vars
           \/ \E a \in Admins : SaveRead(a) \/ SaveWrite(a) \/ ApplyByReload(a) \/ ApplyHot(a)
    <2>1. UNCHANGED <<pc, stored, lastGood>> /\ aux'.working = aux.working
        BY <1>1, RunUntouched
    <2> QED BY ZenonT(60), <2>1 DEF WorkingInv
<1>2. ASSUME NEW a \in Admins, FinishHot(a) PROVE WorkingInv'
    <2>1. pc = "serving" /\ req[a].save = db /\ UNCHANGED <<pc, stored>>
        BY <1>2, ConstantsAssumption DEF FinishHot, MutexHeld, Held, RevisionInv, FreshRequest, runVars
    <2>2. CASE UNCHANGED <<lastGood, aux>>
        BY <2>1, <2>2 DEF WorkingInv
    <2>3. CASE StoreLastGood(req[a].save) /\ aux'.working = req[a].save.cfg
        <3>1. AtMostDb(stored) /\ (lastGood # None => AtMostDb(lastGood))
            BY <2>1 DEF RevisionInv, FreshRun
        <3>2. /\ lastGood' # None /\ lastGood'.rev >= stored.rev /\ lastGood'.cfg = aux'.working
            <4>1. CASE lastGood # None /\ lastGood.rev >= db.rev
                BY SMTT(60), <4>1, <2>1, <2>3, <3>1, Types DEF StoreLastGood, AtMostDb
            <4>2. CASE ~(lastGood # None /\ lastGood.rev >= db.rev)
                BY <4>2, <2>1, <2>3, <3>1, Types, ConstantsAssumption DEF StoreLastGood, AtMostDb
            <4> QED BY SMTT(60), <4>1, <4>2
        <3> QED BY <2>1, <3>2 DEF WorkingInv
    <2>4. UNCHANGED <<lastGood, aux>> \/ (StoreLastGood(req[a].save) /\ aux'.working = req[a].save.cfg)
        BY ZenonT(60), <1>2 DEF FinishHot, TypeOK, AuxType
    <2> QED BY <2>2, <2>3, <2>4
<1>3. CASE RunRevision
    <2>1. pc = "apply" /\ stored = db /\ (lastGood # None => AtMostDb(lastGood))
        BY <1>3 DEF RunRevision, RevisionInv, FreshRun
    <2>2. UNCHANGED <<stored, lastGood>>
        BY <1>3 DEF RunRevision
    <2>3. CASE Startable(stored.cfg)
        <3>1. aux'.working = stored.cfg /\ pc' = "serving"
            BY <1>3, <2>3, AuxOf DEF RunRevision
        <3>2. lastGood # None /\ lastGood.rev >= stored.rev => lastGood = db
            BY <2>1, Types DEF AtMostDb
        <3> QED BY <2>1, <2>2, <3>1, <3>2 DEF WorkingInv
    <2>4. CASE ~Startable(stored.cfg)
        <3>1. aux' = aux /\ pc' = "failed"
            BY SMTT(60), <1>3, <2>4 DEF RunRevision
        <3> QED BY <2>1, <2>2, <3>1 DEF WorkingInv
    <2> QED BY <2>3, <2>4
<1>4. CASE Reload \/ CtrlC
    <2>1. UNCHANGED <<stored, lastGood, aux>> /\ pc = "serving" /\ pc' \in {"stopped", "exited"}
        BY <1>4 DEF Reload, CtrlC, Stop, liveVars
    <2> QED BY ZenonT(60), <2>1 DEF WorkingInv
<1>5. CASE LoadNext
    <2>1. /\ pc = "stopped" /\ pc' = "apply" /\ aux'.working = aux.working
          /\ StoreLastGood(stored)
        BY <1>5, AuxOf DEF LoadNext
    <2>2. lastGood'.cfg = aux.working
        BY SMTT(60), <2>1 DEF WorkingInv, StoreLastGood
    <2> QED BY <2>1, <2>2 DEF WorkingInv
<1>6. CASE TakeLastGood
    BY ZenonT(60), <1>6 DEF TakeLastGood, WorkingInv
<1>7. CASE RollbackRead \/ RollbackWrite
    BY ZenonT(60), <1>7 DEF RollbackRead, RollbackWrite, WorkingInv, liveVars
<1>8. CASE Kill
    BY ZenonT(60), <1>8 DEF Kill, WorkingInv
<1>9. CASE Restart
    BY ZenonT(60), <1>9 DEF Restart, WorkingInv
<1> QED
    BY SMTT(60), <1>1, <1>2, <1>3, <1>4, <1>5, <1>6, <1>7, <1>8, <1>9 DEF Next, AdminStep, RuntimeStep

\* The rollback of a revision that does not start takes the configuration most
\* recently shown to work, by a run or by a hot apply: store_last_good never
\* regresses the slot.
THEOREM RollbackTarget == Spec => []RollbackToLatestWorking
<1>1. Init => WorkingInv
    BY SMTT(60) DEF Init, WorkingInv
<1>2. WorkingInv => RollbackToLatestWorking
    BY DEF WorkingInv, RollbackToLatestWorking
<1> QED
    BY <1>1, <1>2, TypeCorrect, MutualExclusion, RevisionsAgree, WorkingStep, PTL DEF Spec

-----------------------------------------------------------------------------
(* The store and the live configuration. *)

\* A stray write is only forgotten when the store is loaded again.
LEMMA StrayStays == TypeOK /\ [Next]_vars /\ aux.stray /\ ~LoadNext /\ ~Restart => aux'.stray
<1> SUFFICES ASSUME TypeOK, [Next]_vars, aux.stray, ~LoadNext, ~Restart PROVE aux'.stray
    OBVIOUS
<1>0. DOMAIN aux = {"served", "proven", "working", "foreign", "stray", "unproven"}
    BY SMTT(60) DEF TypeOK, AuxType
<1>1. CASE AdminStart
    BY ZenonT(60), <1>0, <1>1 DEF AdminStart, GetConfig, PutConfig, ListenerOperation, RollbackConfig, Begin,
                CertificateChanged, ImportDatabase
<1>2. CASE AdminStep
    BY ZenonT(60), <1>0, <1>2 DEF AdminStep, SaveRead, SaveWrite, ApplyByReload, ApplyHot, FinishHot
<1>3. CASE TimerFires \/ RuntimeStep
    BY ZenonT(60), <1>0, <1>3 DEF TimerFires, RuntimeStep, RunRevision, Reload, Stop, TakeLastGood,
                RollbackRead, RollbackWrite
<1>4. CASE CtrlC \/ Kill \/ UNCHANGED vars
    BY <1>0, <1>4 DEF CtrlC, Stop, Kill, vars
<1> QED BY <1>1, <1>2, <1>3, <1>4 DEF Next

\* A change of the store stays on its way to the live configuration.
LEMMA AgreementStep ==
    TypeOK /\ MutexHeld /\ MutexHeld' /\ AgreementInv /\ [Next]_vars => AgreementInv'
<1> SUFFICES ASSUME TypeOK, MutexHeld, MutexHeld', AgreementInv, [Next]_vars, ~aux'.stray
             PROVE  AgreementInv'
    BY DEF AgreementInv
<1>0. pc' # "serving" => \A a \in Admins : req'[a].stage \notin {"saved", "hot"}
    BY ConstantsAssumption DEF MutexHeld, Held
<1>1. CASE LoadNext \/ Restart
    BY SMTT(60), <1>0, <1>1 DEF LoadNext, Restart, AgreementInv, storeVars
<1>2. CASE ~LoadNext /\ ~Restart
    <2> USE <1>2
    <2>0. ~aux.stray
        BY SMTT(60), StrayStays
    <2>1. ASSUME NEW a \in Admins,
                 GetConfig(a) \/ \E from \in {"idle", "editing"} : \E kind, cfg : Begin(a, from, kind, cfg)
          PROVE  AgreementInv'
        <3>1. /\ req'[a].stage \in {"editing", "read"}
              /\ \A b \in Admins \ {a} : req'[b] = req[b]
            BY ZenonT(60), <2>1, Requests
        <3>2. /\ req[a].stage \in {"idle", "editing"}
              /\ UNCHANGED <<db, pc, timer, permit, live, stored>>
            BY ZenonT(60), <2>1 DEF GetConfig, Begin, storeVars, runVars, liveVars, wakeVars
        <3> QED BY SMTT(60), <2>0, <3>1, <3>2 DEF AgreementInv
    <2>2. CASE CertificateChanged \/ \E r \in DOMAIN history, clear \in BOOLEAN : ImportDatabase(r, clear)
        <3>1. timer' /\ pc' = "serving"
            BY ZenonT(60), <2>2 DEF CertificateChanged, ImportDatabase, ConfigurationChanged, runVars
        <3> QED BY <3>1 DEF AgreementInv
    <2>3. ASSUME NEW a \in Admins, SaveRead(a) PROVE AgreementInv'
        <3>1. req[a].stage \in {"read", "detached read"}
              /\ UNCHANGED <<db, pc, timer, permit, live, stored>>
            BY ZenonT(60), <2>3 DEF SaveRead, storeVars, runVars, liveVars, wakeVars
        <3>2. /\ req'[a].stage = IF req[a].stage = "read" THEN "write" ELSE "detached write"
              /\ \A b \in Admins \ {a} : req'[b] = req[b]
            BY ZenonT(60), <2>3, Requests
        <3> QED BY ZenonT(60), <2>0, <3>1, <3>2 DEF AgreementInv
    <2>4. ASSUME NEW a \in Admins, SaveWrite(a) PROVE AgreementInv'
        <3>1. req[a].stage = "write" /\ db' = req[a].save /\ pc' = pc
            BY ZenonT(60), <2>4, AuxOf DEF SaveWrite, runVars
        <3>2. pc = "serving" /\ \A b \in Admins \ {a} : req[b].stage \notin Held
            BY SMTT(60), <3>1, ConstantsAssumption DEF MutexHeld, Held
        <3>3. /\ req'[a].stage = "saved" /\ req'[a].save = req[a].save
              /\ \A b \in Admins \ {a} : req'[b] = req[b]
            BY ZenonT(60), <2>4, <3>1, Requests
        <3>4. \A b \in Admins : req'[b].stage \in {"saved", "hot"} => b = a
            BY SMTT(60), <3>2, <3>3 DEF Held
        <3> QED BY SMTT(60), <3>1, <3>2, <3>3, <3>4 DEF AgreementInv
    <2>5. ASSUME NEW a \in Admins, ApplyByReload(a) PROVE AgreementInv'
        <3>1. timer' /\ pc' = pc /\ req[a].stage = "saved"
            BY <2>5 DEF ApplyByReload, ConfigurationChanged, runVars
        <3>2. pc = "serving"
            BY SMTT(60), <3>1, ConstantsAssumption DEF MutexHeld, Held
        <3> QED BY SMTT(60), <3>1, <3>2 DEF AgreementInv
    <2>6. ASSUME NEW a \in Admins, ApplyHot(a) PROVE AgreementInv'
        <3>1. /\ req[a].stage = "saved" /\ live' = req[a].save.cfg
              /\ UNCHANGED <<db, pc, timer, permit, stored>>
            BY SMTT(60), <2>6 DEF ApplyHot, storeVars, runVars, wakeVars
        <3>2. pc = "serving"
            BY SMTT(60), <3>1, ConstantsAssumption DEF MutexHeld, Held
        <3>3. /\ req'[a].save = req[a].save
              /\ \A b \in Admins \ {a} : req'[b] = req[b]
            BY ZenonT(60), <2>6, Requests
        <3> QED BY <2>0, <3>1, <3>2, <3>3 DEF AgreementInv
    <2>7. ASSUME NEW a \in Admins, FinishHot(a) PROVE AgreementInv'
        <3>1. req[a].stage = "hot" /\ UNCHANGED <<db, pc, stored, live>>
              /\ (timer' \/ UNCHANGED <<timer, permit>>)
            BY <2>7 DEF FinishHot, ConfigurationChanged, storeVars, runVars, wakeVars
        <3>2. pc = "serving"
            BY SMTT(60), <3>1, ConstantsAssumption DEF MutexHeld, Held
        <3>3. req'[a] = NoRequest /\ \A b \in Admins \ {a} : req'[b] = req[b]
            BY ZenonT(60), <2>7, Requests
        <3>4. req'[a].stage = "idle"
            BY SMTT(60), <3>3, IdleRequest
        <3>5. CASE timer'
            BY SMTT(60), <3>1, <3>2, <3>5 DEF AgreementInv
        <3>6. CASE UNCHANGED <<timer, permit>>
            <4>1. \A b \in Admins : req[b].stage = "saved" => req'[b].stage = "saved"
                BY <3>1, <3>3
            <4>2. \A b \in Admins : req'[b].stage \in {"saved", "hot"} => b # a /\ req'[b] = req[b]
                BY <3>3, <3>4
            <4>3. /\ pc' = "serving" /\ pc = "serving" /\ db' = db /\ live' = live
                  /\ timer' = timer /\ permit' = permit
                BY SMTT(60), <3>1, <3>2, <3>6
            <4> QED BY SMTT(60), <2>0, <4>1, <4>2, <4>3 DEF AgreementInv
        <3> QED BY ZenonT(60), <3>1, <3>5, <3>6
    <2>8. CASE TimerFires
        BY SMTT(60), <2>0, <2>8 DEF TimerFires, storeVars, adminVars, runVars, liveVars, AgreementInv
    <2>9. CASE RunRevision
        <3>1. /\ pc = "apply" /\ live' = stored.cfg /\ UNCHANGED <<db, req>> /\ pc' \in {"serving", "failed"}
            BY SMTT(60), <2>9 DEF RunRevision, storeVars, adminVars
        <3>2. \A a \in Admins : req[a].stage \notin {"saved", "hot"}
            BY SMTT(60), <3>1, ConstantsAssumption DEF MutexHeld, Held
        <3> QED BY <2>0, <3>1, <3>2 DEF AgreementInv
    <2>10. CASE Reload \/ CtrlC \/ TakeLastGood \/ RollbackRead \/ Kill
        <3>1. pc' \notin {"serving", "apply"}
            BY ZenonT(60), <2>10 DEF Reload, CtrlC, Stop, TakeLastGood, RollbackRead, Kill
        <3> QED BY <1>0, <3>1 DEF AgreementInv
    <2>11. CASE RollbackWrite
        BY ZenonT(60), <1>0, <2>11 DEF RollbackWrite, AgreementInv
    <2>12. CASE UNCHANGED vars
        BY <2>0, <2>12 DEF vars, storeVars, adminVars, runVars, liveVars, wakeVars, AgreementInv
    <2> QED
        BY ZenonT(60), <2>1, <2>2, <2>3, <2>4, <2>5, <2>6, <2>7, <2>8, <2>9, <2>10, <2>11, <2>12, BeginOf
        DEF Next, AdminStart, AdminStep, RuntimeStep
<1> QED BY <1>1, <1>2

\* When every request is answered and no reload is pending, the proxy serves
\* what the store holds, whatever mix of hot applies, reloads, rollbacks and
\* imports led there, unless a write landed after its task was cancelled.
THEOREM AgreementAtRest == Spec => []QuiescentAgreement
<1>1. Init => AgreementInv
    BY SMTT(60) DEF Init, AgreementInv, NoRequest
<1>2. AgreementInv => QuiescentAgreement
    BY SMTT(60) DEF AgreementInv, QuiescentAgreement, Quiescent
<1> QED
    BY <1>1, <1>2, TypeCorrect, MutualExclusion, AgreementStep, PTL DEF Spec

-----------------------------------------------------------------------------
(* Surviving a revision that does not start. *)

\* Without accounting, what starts is what can be bound and registered.
LEMMA SoundStarts ==
    ASSUME Accounted = {}, SurvivalInv, NEW cfg, Sound(cfg)
    PROVE  Startable(cfg)
BY ZenonT(60) DEF SurvivalInv, Sound, Startable

\* The slot keeps a revision that can start for when it is needed.
LEMMA SurvivalStep ==
    ASSUME Accounted = {}
    PROVE  TypeOK /\ TypeOK' /\ MutexHeld /\ SurvivalInv /\ [Next]_vars => SurvivalInv'
<1> SUFFICES ASSUME TypeOK, TypeOK', MutexHeld, SurvivalInv, [Next]_vars PROVE SurvivalInv'
    BY SMTT(60)
<1>1. CASE AdminStart \/ TimerFires \/ UNCHANGED vars
           \/ \E a \in Admins : SaveRead(a) \/ SaveWrite(a) \/ ApplyByReload(a) \/ ApplyHot(a)
    <2>1. /\ UNCHANGED <<pc, stored, lastGood>> /\ aux'.proven = aux.proven
          /\ aux'.served = aux.served /\ aux'.unproven = aux.unproven
        BY SMTT(60), <1>1, RunUntouched
    <2> QED BY ZenonT(60), <2>1 DEF SurvivalInv, Sound
<1>2. ASSUME NEW a \in Admins, FinishHot(a) PROVE SurvivalInv'
    <2>1. pc = "serving" /\ UNCHANGED <<pc, stored>>
        BY SMTT(60), <1>2, ConstantsAssumption DEF FinishHot, MutexHeld, Held, runVars
    <2>2. CASE UNCHANGED <<lastGood, aux>>
        BY SMTT(60), <2>1, <2>2 DEF SurvivalInv, Sound
    <2>3. CASE /\ StoreLastGood(req[a].save) /\ req[a].save.cfg.rules \notin Unusable
               /\ aux'.proven = aux.proven /\ aux'.served = aux.served
               /\ ~aux'.unproven => ~aux.unproven /\ req[a].save.cfg.topo \in aux.proven
        <3>1. lastGood' \in {lastGood, req[a].save}
            BY <2>3 DEF StoreLastGood
        <3> QED BY SMTT(60), <2>1, <2>3, <3>1 DEF SurvivalInv, Sound
    <2>4. \/ UNCHANGED <<lastGood, aux>>
          \/ /\ StoreLastGood(req[a].save) /\ req[a].save.cfg.rules \notin Unusable
             /\ aux'.proven = aux.proven /\ aux'.served = aux.served
             /\ ~aux'.unproven => ~aux.unproven /\ req[a].save.cfg.topo \in aux.proven
        BY ZenonT(60), <1>2 DEF FinishHot, TypeOK, AuxType
    <2> QED BY <2>2, <2>3, <2>4
<1>3. CASE RunRevision
    <2>1. pc = "apply" /\ UNCHANGED <<stored, lastGood>>
        BY <1>3 DEF RunRevision
    <2>2. CASE Startable(stored.cfg)
        <3>1. /\ aux'.served /\ aux'.proven = aux.proven \cup {stored.cfg.topo}
              /\ aux'.unproven = aux.unproven /\ pc' = "serving"
            BY <1>3, <2>2, AuxOf DEF RunRevision
        <3>2. stored.cfg.topo \notin Unbindable /\ stored.cfg.rules \notin Unusable
            BY <2>2 DEF Startable
        <3> QED BY <2>1, <3>1, <3>2 DEF SurvivalInv, Sound
    <2>3. CASE ~Startable(stored.cfg)
        <3>1. aux' = aux /\ pc' = "failed"
            BY <1>3, <2>3 DEF RunRevision
        <3>2. ~Sound(stored.cfg)
            BY SMTT(60), <2>3, SoundStarts
        <3> QED BY <2>1, <3>1, <3>2 DEF SurvivalInv, Sound
    <2> QED BY <2>2, <2>3
<1>4. CASE Reload \/ CtrlC
    <2>1. UNCHANGED <<stored, lastGood, aux>> /\ pc = "serving" /\ pc' \in {"stopped", "exited"}
        BY SMTT(60), <1>4 DEF Reload, CtrlC, Stop, liveVars
    <2> QED BY ZenonT(60), <2>1 DEF SurvivalInv, Sound
<1>5. CASE LoadNext
    <2>1. /\ pc = "stopped" /\ pc' = "apply" /\ aux'.proven = aux.proven
          /\ aux'.served = aux.served /\ aux'.unproven = aux.unproven
        BY <1>5, AuxOf DEF LoadNext
    <2>2. lastGood' # None /\ lastGood' \in {lastGood, stored}
        BY SMTT(60), <1>5, Types, ConstantsAssumption DEF LoadNext, StoreLastGood
    <2> QED BY <2>1, <2>2 DEF SurvivalInv, Sound
<1>6. CASE TakeLastGood
    <2>1. /\ pc = "failed" /\ lastGood' = None /\ aux' = aux
          /\ IF lastGood = None THEN pc' = "crashed"
                                ELSE pc' = "rollback read" /\ stored'.cfg = lastGood.cfg
        <3>1. [rev |-> 0, cfg |-> lastGood.cfg].cfg = lastGood.cfg
            OBVIOUS
        <3> QED BY <1>6, <3>1, Zenon DEF TakeLastGood
    <2> QED BY ZenonT(60), <2>1 DEF SurvivalInv, Sound
<1>7. CASE RollbackRead
    <2>1. stored'.cfg = stored.cfg
        BY ZenonT(60), <1>7, Types DEF RollbackRead, Stored
    <2>2. pc = "rollback read" /\ pc' = "rollback write" /\ UNCHANGED <<lastGood, aux>>
        BY ZenonT(60), <1>7 DEF RollbackRead, liveVars
    <2> QED BY ZenonT(60), <2>1, <2>2 DEF SurvivalInv, Sound
<1>8. CASE RollbackWrite
    BY ZenonT(60), <1>8 DEF RollbackWrite, liveVars, SurvivalInv, Sound
<1>9. CASE Kill
    BY ZenonT(60), <1>9 DEF Kill, liveVars, SurvivalInv, Sound
<1>10. CASE Restart
    <2>1. /\ ~aux'.served /\ aux'.proven = {} /\ lastGood' = None /\ pc' = "apply"
        BY <1>10, AuxOf DEF Restart
    <2> QED BY ZenonT(60), <2>1 DEF SurvivalInv, Sound
<1> QED
    BY <1>1, <1>2, <1>3, <1>4, <1>5, <1>6, <1>7, <1>8, <1>9, <1>10 DEF Next, AdminStep, RuntimeStep

\* With accounting disabled, a process that has served never gives up on a
\* revision that does not start: run finds a rollback target, and it starts.
\* The exception is a hot apply on top of a topology that was never bound.
THEOREM ServiceIsKept ==
    ASSUME Accounted = {}
    PROVE  Spec => []ServiceSurvives
<1>1. Init => SurvivalInv
    BY DEF Init, SurvivalInv
<1>2. SurvivalInv => ServiceSurvives
    BY DEF SurvivalInv, ServiceSurvives
<1>3. TypeOK /\ TypeOK' /\ MutexHeld /\ SurvivalInv /\ [Next]_vars => SurvivalInv'
    BY SurvivalStep
<1> QED
    BY <1>1, <1>2, <1>3, TypeCorrect, MutualExclusion, PTL DEF Spec
=============================================================================
