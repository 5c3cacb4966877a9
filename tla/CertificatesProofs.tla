------------------------- MODULE CertificatesProofs -------------------------
(***************************************************************************)
(* Proofs about Certificates: its types, that the active pointer always    *)
(* has its generation, and that a registration never overwrites a record,  *)
(* for any number of certificates, registrars, generations and late        *)
(* writes.                                                                 *)
(***************************************************************************)
EXTENDS Certificates, TLAPS

\* What the fields of a write are.
LEMMA WriteFields ==
    ASSUME NEW w \in Write
    PROVE  /\ w.kind \in {"activate", "row", "record", "delete", "clear"}
           /\ w.kind = "activate" => w.cert \in Certs /\ w.gen \in Gen \ {0}
           /\ w.kind = "row" => w.cert \in Certs /\ w.row \in Row
           /\ w.kind = "record" => w.cert \in Certs /\ w.rec \in Record
           /\ w.kind = "delete" => w.cert \in Certs /\ w.gens \in SUBSET (Gen \ {0})
           /\ w.kind = "clear" => w.rows \in [Certs -> Row \cup {None}]
BY DEF Write

\* The constructors build writes.
LEMMA Writes ==
    ASSUME NEW c \in Certs
    PROVE  /\ \A g \in Gen \ {0} : ActivateWrite(c, g) \in Write
           /\ \A r \in Row : RowWrite(c, r) \in Write
           /\ \A r \in Record : RecordWrite(c, r) \in Write
           /\ \A G \in SUBSET (Gen \ {0}) : DeleteWrite(c, G) \in Write
           /\ \A rows \in [Certs -> Row \cup {None}] : ClearWrite(rows) \in Write
BY DEF Write, ActivateWrite, RowWrite, RecordWrite, DeleteWrite, ClearWrite

\* What the assumption on the constants says of the sets in use: None is none
\* of the values it stands beside.
LEMMA Constants ==
    /\ FreshRow \in Row
    /\ \A p \in Providers : Automatic(p) \in Record
    /\ 0 \in Gen /\ Gen \subseteq Nat
    /\ None \notin Certs /\ None \notin Registrars /\ None \notin Record /\ None \notin Row
    /\ None \notin Write /\ None \notin [Certs -> Gen]
BY CertificatesAssumption DEF FreshRow, Row, Automatic, Record, Gen

\* A write keeps the types of the store.
LEMMA ApplyTypes ==
    ASSUME StoreTypes, NEW w \in Write, Apply(w), UNCHANGED <<gate, issued, cache>>
    PROVE  StoreTypes'
<1>1. CASE w.kind = "activate"
  BY <1>1, WriteFields, Constants DEF StoreTypes, Apply
<1>2. CASE w.kind = "row"
  BY <1>2, WriteFields, Constants DEF StoreTypes, Apply
<1>3. CASE w.kind = "record"
  BY <1>3, WriteFields, Constants DEF StoreTypes, Apply
<1>4. CASE w.kind = "delete"
  BY <1>4, WriteFields, Constants DEF StoreTypes, Apply
<1>5. CASE w.kind = "clear"
  BY SMTT(60), <1>5, WriteFields, Constants DEF StoreTypes, Apply
<1> QED
  BY <1>1, <1>2, <1>3, <1>4, <1>5, WriteFields

-----------------------------------------------------------------------------
(* Types. *)

\* The steps that change the store, the cache or the issued generations.
StoreChange ==
    \/ AriSaves \/ EnsureCreates \/ RevisionStarts \/ RetentionDeletes
    \/ \E c \in Certs :
        \/ JobIssues(c) \/ JobActivates(c) \/ JobInstalls(c) \/ JobSavesRow(c)
        \/ Expire(c) \/ GatePasses(c)
    \/ \E r \in Registrars : RegistrationLooks(r) \/ RegistrationCreates(r)
    \/ \E s \in Slots : AdminWrites(s)
    \/ \E w \in detached : Lands(w)

\* Every other step leaves the store, the cache and the counter alone.
LEMMA StoreFrame ==
    ASSUME [Next]_vars
    PROVE  StoreChange \/ UNCHANGED <<storeVars, expiring, issued, cache>>
<1>1. CASE UNCHANGED vars
  BY SMTT(60), <1>1 DEF vars
<1>2. CASE ScanScheduled \/ ScanRequested \/ ScanStep
  BY ZenonT(60), <1>2 DEF StoreChange, storeVars, ScanScheduled, ScanRequested, ScanStep, PreparationTimesOut,
        ListDue, ScanEnds, AriFails, AriSkips, AriReads, PrepVarsUnchanged
<1>3. CASE RuntimeStep
  BY <1>3 DEF StoreChange, storeVars, RuntimeStep, RevisionEnds, EnsureLooks, EnsureVarsUnchanged
<1>4. ASSUME NEW c \in Certs, JobStep(c)
      PROVE  StoreChange \/ UNCHANGED <<storeVars, expiring, issued, cache>>
  BY <1>4 DEF StoreChange, storeVars, JobStep, JobStarts, JobChecks, JobFails, JobLoads,
        JobReadsRow, JobTimesOut, JobVarsUnchanged
<1>5. ASSUME NEW c \in Certs, SaveCertificate(c) \/ DeleteCertificate(c) \/ UpdatePublish(c)
      PROVE  StoreChange \/ UNCHANGED <<storeVars, expiring, issued, cache>>
  BY <1>5 DEF storeVars, SaveCertificate, DeleteCertificate, UpdatePublish, Submit
<1>6. CASE RequestRenewal
  BY SMTT(60), <1>6 DEF storeVars, RequestRenewal, Submit
<1>7. CASE RetentionLists \/ RetentionDeletes \/ \E c \in Certs : RetentionDecides(c)
  BY ZenonT(60), <1>7 DEF StoreChange, storeVars, RetentionLists, RetentionDecides, RetentionVarsUnchanged
<1>8. ASSUME NEW r \in Registrars, RegistrationStep(r) \/ \E c \in Certs : RegistrationBegins(r, c)
      PROVE  StoreChange \/ UNCHANGED <<storeVars, expiring, issued, cache>>
  BY <1>8 DEF StoreChange, storeVars, RegistrationStep, RegistrationRejected, RegistrationBegins,
        RegVarsUnchanged
<1> QED
  BY <1>1, <1>2, <1>3, <1>4, <1>5, <1>6, <1>7, <1>8 DEF Next, StoreChange

\* Every step keeps the types of the rows, the generations and the cache.
LEMMA StoreTypesStep ==
    ASSUME TypeOK, [Next]_vars
    PROVE  StoreTypes'
<1> USE DEF TypeOK
<1>1. ASSUME AriSaves
      PROVE  StoreTypes'
  <2>1. prep.row \in Row /\ prep.cert \in Certs
    BY <1>1 DEF SchedulerTypes, AriSaves
  <2>2. \A b \in BOOLEAN : [prep.row EXCEPT !.ari = b] \in Row
    BY <2>1 DEF Row
  <2> QED
    BY <1>1, <2>1, <2>2 DEF StoreTypes, AriSaves, PrepVarsUnchanged
<1>2. ASSUME EnsureCreates
      PROVE  StoreTypes'
  <2>1. PICK p \in Providers : rec' = [rec EXCEPT ![ensure.found] = Automatic(p)]
    BY ZenonT(60), <1>2 DEF EnsureCreates
  <2> QED
    BY ZenonT(60), <1>2, <2>1, Constants DEF StoreTypes, EnsureCreates, EnsureVarsUnchanged
<1>3. ASSUME RevisionStarts
      PROVE  StoreTypes'
  BY <1>3, Constants DEF StoreTypes, RevisionStarts, Entries, storeVars
<1>4. ASSUME RetentionDeletes
      PROVE  StoreTypes'
  BY <1>4 DEF StoreTypes, RetentionDeletes, RetentionVarsUnchanged
<1>5. ASSUME NEW c \in Certs, JobIssues(c)
      PROVE  StoreTypes'
  BY <1>5, CertificatesAssumption DEF StoreTypes, JobIssues, JobVarsUnchanged, Gen
<1>6. ASSUME NEW c \in Certs, JobActivates(c)
      PROVE  StoreTypes'
  <2>1. ActivateWrite(c, job[c].gen) \in Write
    BY <1>6, Writes DEF SchedulerTypes, JobActivates, Job
  <2> QED
    BY SMTT(60), <1>6, <2>1, ApplyTypes DEF JobActivates, JobVarsUnchanged
<1>7. ASSUME NEW c \in Certs, JobInstalls(c)
      PROVE  StoreTypes'
  BY <1>7 DEF StoreTypes, SchedulerTypes, JobInstalls, JobVarsUnchanged, Job
<1>8. ASSUME NEW c \in Certs, JobSavesRow(c)
      PROVE  StoreTypes'
  <2>1. RowWrite(c, job[c].row) \in Write
    BY <1>8, Writes DEF SchedulerTypes, JobSavesRow, Job
  <2> QED
    BY SMTT(60), <1>8, <2>1, ApplyTypes DEF JobSavesRow, JobVarsUnchanged
<1>9. ASSUME NEW c \in Certs, Expire(c)
      PROVE  StoreTypes'
  BY <1>9 DEF StoreTypes, Expire, TimeVarsUnchanged
<1>10. ASSUME NEW c \in Certs, GatePasses(c)
       PROVE  StoreTypes'
  <2>1. [row[c] EXCEPT !.gate = "passed"] \in Row
    BY <1>10 DEF StoreTypes, GatePasses, Row
  <2> QED
    BY <1>10, <2>1 DEF StoreTypes, GatePasses, TimeVarsUnchanged
<1>11. ASSUME NEW r \in Registrars, RegistrationLooks(r)
       PROVE  StoreTypes'
  BY <1>11 DEF StoreTypes, RegistrationLooks, RegVarsUnchanged
<1>12. ASSUME NEW r \in Registrars, RegistrationCreates(r)
       PROVE  StoreTypes'
  <2>1. reg[r].cert \in Certs
    BY <1>12 DEF TaskTypes, Registration, RegistrationCreates
  <2>2. PICK p \in Providers : rec' = [rec EXCEPT ![reg[r].cert] = Automatic(p)]
    BY ZenonT(60), <1>12 DEF RegistrationCreates
  <2>3. gate' = None /\ RegVarsUnchanged
    BY <1>12 DEF RegistrationCreates
  <2> QED
    BY <2>1, <2>2, <2>3, Constants DEF StoreTypes, RegVarsUnchanged
<1>13. ASSUME NEW s \in Slots, AdminWrites(s)
       PROVE  StoreTypes'
  BY <1>13, ApplyTypes DEF WriteTypes, AdminWrites
<1>14. ASSUME NEW w \in detached, Lands(w)
       PROVE  StoreTypes'
  BY <1>14, ApplyTypes DEF WriteTypes, Lands, JobVarsUnchanged
<1>15. ASSUME UNCHANGED <<storeVars, expiring, issued, cache>>
       PROVE  StoreTypes'
  BY <1>15 DEF StoreTypes, storeVars
<1> QED
  BY <1>1, <1>2, <1>3, <1>4, <1>5, <1>6, <1>7, <1>8, <1>9, <1>10, <1>11, <1>12, <1>13, <1>14,
     <1>15, StoreFrame DEF StoreChange

\* The initial records of the scheduler's state.
LEMMA Empties ==
    /\ NoPrep \in [left: SUBSET Certs, cert: Certs \cup {None}, row: Row \cup {None}, hung: Nat]
    /\ NoPrep.cert = None
    /\ NoJob \in Job
    /\ NoJob.stage = "none"
    /\ EnabledCerts \subseteq Certs
BY Constants DEF NoPrep, NoJob, Job, Stages, EnabledCerts

\* The updates of a renewal are well typed.
LEMMA JobIssued ==
    ASSUME NEW j \in Job, NEW stage \in Stages, NEW g \in Gen
    PROVE  [j EXCEPT !.stage = stage, !.gen = g] \in Job
BY ZenonT(60) DEF Job

\* So is a renewal whose failure row has been read.
LEMMA JobFailed ==
    ASSUME NEW j \in Job, NEW stage \in Stages, NEW q \in Row
    PROVE  [j EXCEPT !.stage = stage, !.row = q] \in Job
BY ZenonT(60) DEF Job

\* So is a renewal that has loaded the entries of the cache.
LEMMA JobLoaded ==
    ASSUME NEW j \in Job, NEW stage \in Stages, NEW e \in [Certs -> Gen]
    PROVE  [j EXCEPT !.stage = stage, !.entries = e] \in Job
BY ZenonT(60) DEF Job

\* A step of one renewal keeps the types of all of them if the new state of
\* that renewal is well typed.
LEMMA JobTypes ==
    ASSUME SchedulerTypes, NEW c \in Certs, NEW j \in Job, job' = [job EXCEPT ![c] = j],
           UNCHANGED <<scan, wake, prep>>,
           j.stage = "activate" => j.gen # 0,
           j.stage = "install" => j.entries # None,
           j.stage \in {"failsave", "timedsave"} => j.row # None
    PROVE  SchedulerTypes'
BY DEF SchedulerTypes

\* Every step keeps the types of the scan and its renewals: a renewal that
\* activates has a generation, one that saves a row has the row.
LEMMA SchedulerTypesStep ==
    ASSUME TypeOK, [Next]_vars
    PROVE  SchedulerTypes'
<1> USE DEF TypeOK
<1>1. ASSUME ScanScheduled \/ ScanRequested \/ RevisionStarts
      PROVE  SchedulerTypes'
  BY ZenonT(60), <1>1, Empties DEF SchedulerTypes, ScanScheduled, ScanRequested, RevisionStarts, BeginPreparation, NoPrep
<1>2. ASSUME PreparationTimesOut \/ ScanEnds
      PROVE  SchedulerTypes'
  BY <1>2, Empties DEF SchedulerTypes, PreparationTimesOut, ScanEnds, PrepVarsUnchanged
<1>3. ASSUME ListDue
      PROVE  SchedulerTypes'
  <2>1. \A c \in Due : [NoJob EXCEPT !.stage = "queued", !.provider = rec[c].provider] \in Job
    BY ZenonT(60), Empties DEF Due, EnabledCerts, StoreTypes, Record, Job, Stages
  <2>2. job' \in [Certs -> Job] /\ \A c \in Certs : job'[c].stage \in {"none", "queued"}
    BY ZenonT(60), <1>3, <2>1, Empties DEF ListDue, NoJob
  <2> QED
    BY ZenonT(60), <1>3, <2>2, Empties DEF SchedulerTypes, ListDue, PrepVarsUnchanged
<1>4. ASSUME AriSaves \/ AriFails \/ \E c \in Certs : AriSkips(c) \/ AriReads(c)
      PROVE  SchedulerTypes'
  <2>1. CASE AriSaves \/ AriFails
    <3>1. UNCHANGED <<scan, wake, job>>
      BY ZenonT(60), <2>1 DEF AriSaves, AriFails, PrepVarsUnchanged
    <3>2. PICK n \in {0, 1} : prep' = [prep EXCEPT !.cert = None, !.row = None, !.hung = @ + n]
      <4>1. prep.hung + 0 = prep.hung
        BY DEF SchedulerTypes
      <4>2. prep = [prep EXCEPT !.hung = @ + 0]
        BY <4>1 DEF SchedulerTypes
      <4> QED
        BY <2>1, <4>1, <4>2, ZenonT(120) DEF AriSaves, AriFails, SchedulerTypes
    <3> USE DEF SchedulerTypes
    <3>5. prep.hung + n \in Nat
      BY <3>2
    <3>3. prep' \in [left: SUBSET Certs, cert: Certs \cup {None}, row: Row \cup {None}, hung: Nat]
      BY ZenonT(60), <3>2, <3>5
    <3>4. prep'.cert = None
      BY <3>2
    <3> QED
      BY SMTT(60), <3>1, <3>3, <3>4
  <2>2. ASSUME NEW c \in Certs, AriSkips(c)
        PROVE  SchedulerTypes'
    BY <2>2 DEF SchedulerTypes, AriSkips, PrepVarsUnchanged
  <2>3. ASSUME NEW c \in Certs, AriReads(c)
        PROVE  SchedulerTypes'
    <3>1. PICK q \in Row :
              prep' = [prep EXCEPT !.left = @ \ {c}, !.cert = c, !.row = q]
      BY ZenonT(60), <2>3, Constants DEF StoreTypes, AriReads
    <3> QED
      <4>1. UNCHANGED <<scan, wake, job>>
        BY <2>3 DEF AriReads, PrepVarsUnchanged
      <4> QED
        BY ZenonT(60), <3>1, <4>1, Constants DEF SchedulerTypes
  <2> QED
    BY <1>4, <2>1, <2>2, <2>3
<1>5. ASSUME NEW c \in Certs, JobStarts(c) \/ JobChecks(c) \/ JobFails(c)
      PROVE  SchedulerTypes'
  <2>1. PICK stage \in {"start", "order", "refused", "fail"} :
            job' = [job EXCEPT ![c] = [job[c] EXCEPT !.stage = stage]]
    BY SMTT(60), <1>5 DEF JobStarts, JobChecks, JobFails, Goto
  <2>2. [job[c] EXCEPT !.stage = stage] \in Job
    BY SMTT(60) DEF SchedulerTypes, Job, Stages
  <2> QED
    BY ZenonT(60), <1>5, <2>1, <2>2, JobTypes DEF SchedulerTypes, Job, JobStarts, JobChecks, JobFails, JobVarsUnchanged
<1>6. ASSUME NEW c \in Certs, JobIssues(c)
      PROVE  SchedulerTypes'
  <2>1. job' = [job EXCEPT ![c] = [job[c] EXCEPT !.stage = "activate", !.gen = issued + 1]]
    BY ZenonT(60), <1>6 DEF JobIssues
  <2>2. issued + 1 \in Gen /\ issued + 1 # 0
    BY <1>6, CertificatesAssumption DEF JobIssues, StoreTypes, Gen
  <2> DEFINE j == [job[c] EXCEPT !.stage = "activate", !.gen = issued + 1]
  <2>3. j \in Job /\ j.stage = "activate" /\ j.gen = issued + 1
    <3>1. job[c] \in Job
      BY DEF SchedulerTypes
    <3>2. j.stage = "activate" /\ j.gen = issued + 1
      BY SMTT(60), <3>1 DEF Job
    <3> QED
      BY ZenonT(60), <2>2, <3>1, <3>2, JobIssued DEF Stages
  <2>4. UNCHANGED <<scan, wake, prep>> /\ job' = [job EXCEPT ![c] = j]
    BY ZenonT(60), <1>6, <2>1 DEF JobIssues, JobVarsUnchanged
  <2> HIDE DEF j
  <2> QED
    BY ZenonT(60), <2>2, <2>3, <2>4, JobTypes
<1>7. ASSUME NEW c \in Certs, JobActivates(c)
      PROVE  SchedulerTypes'
  <2>1. [job[c] EXCEPT !.stage = "load"] \in Job
    BY SMTT(60) DEF SchedulerTypes, Job, Stages
  <2> QED
    BY SMTT(60), <1>7, <2>1, JobTypes DEF SchedulerTypes, Job, JobActivates, Goto, JobVarsUnchanged
<1>8. ASSUME NEW c \in Certs, JobLoads(c)
      PROVE  SchedulerTypes'
  <2>1. Entries \in [Certs -> Gen]
    BY Constants DEF Entries, StoreTypes
  <2> DEFINE j == [job[c] EXCEPT !.stage = "install", !.entries = Entries]
  <2>2. j \in Job /\ j.stage = "install" /\ j.entries = Entries
    <3>1. job[c] \in Job
      BY DEF SchedulerTypes
    <3>2. j.stage = "install" /\ j.entries = Entries
      BY SMTT(60), <3>1 DEF Job
    <3> QED
      BY ZenonT(60), <2>1, <3>1, <3>2, JobLoaded DEF Stages
  <2>3. UNCHANGED <<scan, wake, prep>> /\ job' = [job EXCEPT ![c] = j]
    BY ZenonT(60), <1>8 DEF JobLoads, JobVarsUnchanged
  <2> HIDE DEF j
  <2> QED
    BY ZenonT(60), <2>1, <2>2, <2>3, Constants, JobTypes
<1>9. ASSUME NEW c \in Certs, JobReadsRow(c)
      PROVE  SchedulerTypes'
  <2> DEFINE next == IF job[c].stage = "timedout" THEN "timedsave" ELSE "failsave"
             due == row[c] # None /\ row[c].ari
             j(g) == [job[c] EXCEPT !.stage = next, !.row = [gate |-> g, ari |-> due]]
  <2>1. due \in BOOLEAN
    OBVIOUS
  <2>2. PICK g \in {"backoff", "ca"} : job' = [job EXCEPT ![c] = j(g)]
    <3>1. CASE job[c].stage = "fail"
      BY <1>9, <3>1, ZenonT(120) DEF JobReadsRow
    <3>2. CASE job[c].stage # "fail"
      <4>1. job' = [job EXCEPT ![c].stage = next, ![c].row = [gate |-> "backoff", ari |-> due]]
        BY <1>9, <3>2 DEF JobReadsRow
      <4> QED
        BY ZenonT(60), <4>1
    <3> QED
      BY SMTT(60), <3>1, <3>2
  <2>3. [gate |-> g, ari |-> due] \in Row
    BY ZenonT(60), <2>1 DEF Row
  <2>4. j(g) \in Job /\ j(g).stage \in {"failsave", "timedsave"} /\ j(g).row = [gate |-> g, ari |-> due]
    <3>1. job[c] \in Job
      BY ZenonT(60) DEF SchedulerTypes
    <3>2. j(g).stage = next /\ j(g).row = [gate |-> g, ari |-> due]
      BY <3>1 DEF Job
    <3> QED
      BY ZenonT(60), <2>3, <3>1, <3>2, JobFailed DEF Stages
  <2>5. UNCHANGED <<scan, wake, prep>>
    BY <1>9 DEF JobReadsRow, JobVarsUnchanged
  <2> HIDE DEF j
  <2> QED
    BY ZenonT(60), <2>2, <2>3, <2>4, <2>5, Constants, JobTypes
<1>10. ASSUME NEW c \in Certs, JobInstalls(c) \/ JobSavesRow(c)
       PROVE  SchedulerTypes'
  BY ZenonT(60), <1>10, Empties, JobTypes DEF JobInstalls, JobSavesRow, JobVarsUnchanged
<1>11. ASSUME NEW c \in Certs, JobTimesOut(c)
       PROVE  SchedulerTypes'
  <2>1. [NoJob EXCEPT !.stage = "timedout"] \in Job
    BY Empties DEF Job, Stages
  <2> QED
    BY ZenonT(60), <1>11, <2>1, Empties, JobTypes DEF Job, JobTimesOut, JobVarsUnchanged
<1>12. ASSUME RevisionEnds
       PROVE  SchedulerTypes'
  BY ZenonT(60), <1>12, Empties DEF SchedulerTypes, RevisionEnds
<1>13. ASSUME UNCHANGED <<scan, prep, job>>, wake' \in BOOLEAN
       PROVE  SchedulerTypes'
  BY ZenonT(60), <1>13 DEF SchedulerTypes
<1>14. ASSUME NEW s \in Slots, AdminWrites(s)
       PROVE  SchedulerTypes'
  BY ZenonT(60), <1>14 DEF SchedulerTypes, AdminWrites
<1>15. ASSUME NEW r \in Registrars, RegistrationCreates(r)
       PROVE  SchedulerTypes'
  BY ZenonT(60), <1>15 DEF SchedulerTypes, TaskTypes, RegistrationCreates, RegVarsUnchanged
<1>16. CASE UNCHANGED schedVars
  BY ZenonT(60), <1>16 DEF SchedulerTypes, schedVars
<1> QED
  <2>1. CASE ScanScheduled \/ ScanRequested \/ ScanStep
    BY SMTT(60), <2>1, <1>1, <1>2, <1>3, <1>4 DEF ScanStep
  <2>2. CASE RuntimeStep
    BY SMTT(60), <2>2, <1>1, <1>12, <1>16 DEF RuntimeStep, EnsureCreates, EnsureLooks, EnsureVarsUnchanged
  <2>3. CASE \E c \in Certs : JobStep(c)
    BY SMTT(60), <2>3, <1>5, <1>6, <1>7, <1>8, <1>9, <1>10, <1>11 DEF JobStep
  <2>4. CASE RequestRenewal \/ \E c \in Certs : SaveCertificate(c) \/ DeleteCertificate(c) \/ UpdatePublish(c)
    BY SMTT(60), <2>4, <1>16 DEF RequestRenewal, SaveCertificate, DeleteCertificate, UpdatePublish, Submit
  <2>5. CASE RetentionLists \/ RetentionDeletes \/ \E c \in Certs : RetentionDecides(c)
    BY ZenonT(60), <2>5, <1>16 DEF RetentionLists, RetentionDeletes, RetentionDecides, RetentionVarsUnchanged
  <2>6. CASE \E c \in Certs : Expire(c) \/ GatePasses(c)
    BY SMTT(60), <2>6, <1>16 DEF Expire, GatePasses, TimeVarsUnchanged
  <2>7. CASE \E r \in Registrars : RegistrationStep(r) \/ \E c \in Certs : RegistrationBegins(r, c)
    BY SMTT(60), <2>7, <1>15, <1>16 DEF schedVars, RegistrationStep, RegistrationRejected, RegistrationLooks,
        RegistrationBegins, RegVarsUnchanged
  <2>8. CASE \E w \in detached : Lands(w)
    BY SMTT(60), <2>8, <1>16 DEF schedVars, Lands, JobVarsUnchanged
  <2>9. CASE UNCHANGED vars
    BY SMTT(60), <2>9, <1>16 DEF vars
  <2> QED
    BY <2>1, <2>2, <2>3, <2>4, <2>5, <2>6, <2>7, <2>8, <2>9, <1>14 DEF Next

\* The write a renewal leaves behind, and the one of the ARI refresh, are writes.
LEMMA LateWrites ==
    ASSUME TypeOK
    PROVE  /\ \A c \in Certs : WriteOf(c) \subseteq Write
           /\ \A ws \in AriWrites : ws \subseteq Write
<1>1. ASSUME NEW c \in Certs
      PROVE  WriteOf(c) \subseteq Write
  <2>1. job[c].gen \in Gen /\ job[c].row \in Row \cup {None}
    BY SMTT(60) DEF TypeOK, SchedulerTypes, Job
  <2>2. CASE job[c].stage = "activate"
    BY SMTT(60), <2>1, <2>2, Writes DEF TypeOK, SchedulerTypes, WriteOf
  <2>3. CASE job[c].stage \in {"failsave", "timedsave"}
    BY SMTT(60), <2>1, <2>3, Writes DEF TypeOK, SchedulerTypes, WriteOf
  <2>4. CASE job[c].stage \notin {"activate", "failsave", "timedsave"}
    BY SMTT(60), <2>4 DEF WriteOf
  <2> QED
    BY ZenonT(60), <2>2, <2>3, <2>4
<1>2. ASSUME NEW ws \in AriWrites
      PROVE  ws \subseteq Write
  <2>1. CASE ws = {}
    BY <2>1
  <2>2. CASE ws # {}
    <3>1. prep.cert # None
      BY SMTT(60), <2>2 DEF AriWrites
    <3>2. PICK b \in BOOLEAN : ws = {RowWrite(prep.cert, [prep.row EXCEPT !.ari = b])}
      BY SMTT(60), <2>2, <3>1 DEF AriWrites
    <3>3. prep.cert \in Certs /\ prep.row \in Row
      BY SMTT(60), <3>1 DEF TypeOK, SchedulerTypes
    <3>4. [prep.row EXCEPT !.ari = b] \in Row
      BY SMTT(60), <3>3 DEF Row
    <3> QED
      BY SMTT(60), <3>2, <3>3, <3>4, Writes
  <2> QED
    BY SMTT(60), <2>1, <2>2
<1> QED
  BY SMTT(60), <1>1, <1>2

\* Every step keeps the types of the writes in flight.
LEMMA WriteTypesStep ==
    ASSUME TypeOK, [Next]_vars
    PROVE  WriteTypes'
<1> USE DEF TypeOK
<1>1. ASSUME NEW s \in Slots, NEW w \in Write, Submit(s, w)
      PROVE  WriteTypes'
  BY SMTT(60), <1>1 DEF WriteTypes, Submit
<1>2. ASSUME NEW c \in Certs, SaveCertificate(c)
      PROVE  WriteTypes'
  BY SMTT(60), <1>1, <1>2, Writes DEF SaveCertificate, Slots
<1>3. ASSUME NEW c \in Certs, DeleteCertificate(c)
      PROVE  WriteTypes'
  <2>1. DeleteWrite(c, gens[c]) \in Write
    BY SMTT(60), Writes DEF StoreTypes
  <2> QED
    BY ZenonT(60), <1>1, <1>3, <2>1 DEF DeleteCertificate, Slots
<1>4. ASSUME NEW c \in Certs, UpdatePublish(c)
      PROVE  WriteTypes'
  <2>1. RecordWrite(c, rec[c]) \in Write
    BY ZenonT(60), <1>4, Writes DEF StoreTypes, UpdatePublish
  <2> QED
    BY SMTT(60), <1>1, <1>4, <2>1 DEF UpdatePublish, Slots
<1>5. ASSUME RequestRenewal
      PROVE  WriteTypes'
  <2> DEFINE rows == [c \in Certs |-> Cleared(row[c])]
  <2>1. ASSUME NEW c \in Certs
        PROVE  Cleared(row[c]) \in Row \cup {None}
    BY SMTT(60) DEF StoreTypes, Row, Cleared
  <2>2. rows \in [Certs -> Row \cup {None}]
    BY SMTT(60), <2>1
  <2>3. ClearWrite(rows) \in Write
    BY ZenonT(60), <2>2 DEF ClearWrite, Write
  <2> QED
    BY SMTT(60), <1>1, <1>5, <2>3 DEF RequestRenewal, Slots
<1>6. ASSUME NEW s \in Slots, AdminWrites(s)
      PROVE  WriteTypes'
  BY SMTT(60), <1>6 DEF WriteTypes, AdminWrites
<1>7. ASSUME NEW c \in Certs, JobTimesOut(c)
      PROVE  WriteTypes'
  BY SMTT(60), <1>7, LateWrites DEF WriteTypes, JobTimesOut, JobVarsUnchanged, adminVars
<1>8. ASSUME NEW w \in detached, Lands(w)
      PROVE  WriteTypes'
  BY SMTT(60), <1>8 DEF WriteTypes, Lands, JobVarsUnchanged, adminVars
<1>9. ASSUME RevisionEnds
      PROVE  WriteTypes'
  <2>1. PICK ws \in AriWrites :
            detached' = detached \cup ws \cup (UNION {WriteOf(c) : c \in Certs})
                            \cup {admin[s] : s \in {t \in Slots : admin[t] # None}}
    BY SMTT(60), <1>9 DEF RevisionEnds
  <2>2. \A s \in {t \in Slots : admin[t] # None} : admin[s] \in Write
    BY SMTT(60) DEF WriteTypes
  <2>3. detached' \subseteq Write
    BY SMTT(60), <2>1, <2>2, LateWrites DEF WriteTypes
  <2> QED
    BY SMTT(60), <1>9, <2>3 DEF WriteTypes, RevisionEnds
<1>10. CASE UNCHANGED <<detached, admin>>
  BY SMTT(60), <1>10 DEF WriteTypes
<1> QED
  <2>1. CASE ScanScheduled \/ ScanRequested \/ ScanStep
    BY ZenonT(60), <2>1, <1>10 DEF adminVars, ScanScheduled, ScanRequested, ScanStep, PreparationTimesOut, ListDue,
        ScanEnds, AriSaves, AriFails, AriSkips, AriReads, PrepVarsUnchanged
  <2>2. CASE RuntimeStep
    BY SMTT(60), <2>2, <1>9, <1>10 DEF RuntimeStep, RevisionStarts, EnsureCreates, EnsureLooks, EnsureVarsUnchanged
  <2>3. CASE \E c \in Certs : JobStep(c)
    BY ZenonT(60), <2>3, <1>7, <1>10 DEF adminVars, JobStep, JobStarts, JobChecks, JobIssues, JobFails, JobActivates,
        JobLoads, JobInstalls, JobReadsRow, JobSavesRow, JobVarsUnchanged
  <2>4. CASE RequestRenewal \/ \E c \in Certs : SaveCertificate(c) \/ DeleteCertificate(c) \/ UpdatePublish(c)
    BY <2>4, <1>2, <1>3, <1>4, <1>5
  <2>5. CASE RetentionLists \/ RetentionDeletes \/ \E c \in Certs : RetentionDecides(c)
    BY ZenonT(60), <2>5, <1>10 DEF adminVars, RetentionLists, RetentionDeletes, RetentionDecides, RetentionVarsUnchanged
  <2>6. CASE \E c \in Certs : Expire(c) \/ GatePasses(c)
    BY SMTT(60), <2>6, <1>10 DEF adminVars, Expire, GatePasses, TimeVarsUnchanged
  <2>7. CASE \E r \in Registrars : RegistrationStep(r) \/ \E c \in Certs : RegistrationBegins(r, c)
    BY ZenonT(60), <2>7, <1>10 DEF adminVars, RegistrationStep, RegistrationRejected, RegistrationLooks,
        RegistrationCreates, RegistrationBegins, RegVarsUnchanged
  <2>8. CASE UNCHANGED vars
    BY SMTT(60), <2>8, <1>10 DEF vars, adminVars
  <2> QED
    BY SMTT(60), <2>1, <2>2, <2>3, <2>4, <2>5, <2>6, <2>7, <2>8, <1>6, <1>8 DEF Next

\* Every step keeps the types of reload, registrations and retention.
LEMMA TaskTypesStep ==
    ASSUME TypeOK, [Next]_vars
    PROVE  TaskTypes'
<1> USE DEF TypeOK
<1>1. ASSUME NEW s \in Slots, AdminWrites(s)
      PROVE  TaskTypes'
  BY ZenonT(60), <1>1 DEF TaskTypes, AdminWrites
<1>2. ASSUME RevisionEnds
      PROVE  TaskTypes'
  <2>1. Routed \subseteq Certs
    BY SMTT(60), CertificatesAssumption
  <2>2. ensure' = [left |-> Routed, found |-> None] /\ reload' = "ensure" /\ retention' = retention
    BY SMTT(60), <1>2 DEF RevisionEnds, NoEnsure
  <2>3. reg' = [r \in Registrars |-> [reg[r] EXCEPT !.current = FALSE]]
    BY SMTT(60), <1>2 DEF RevisionEnds
  <2>4. ASSUME NEW r \in Registrars
        PROVE  /\ reg'[r] \in Registration
               /\ reg'[r].stage = reg[r].stage /\ reg'[r].cert = reg[r].cert
    <3>1. reg[r] \in Registration
      BY DEF TaskTypes
    <3> QED
      BY ZenonT(60), <2>3, <3>1 DEF Registration
  <2>5. reg' \in [Registrars -> Registration]
    BY <2>3, <2>4
  <2>6. \A r \in Registrars : reg'[r].stage # "none" => reg'[r].cert # None
    BY ZenonT(60), <2>4 DEF TaskTypes
  <2>7. ensure' \in [left: SUBSET Certs, found: Certs \cup {None}]
    BY SMTT(60), <2>1, <2>2
  <2> QED
    BY ZenonT(60), <2>2, <2>5, <2>6, <2>7 DEF TaskTypes
<1>3. ASSUME NEW c \in Certs, EnsureLooks(c)
      PROVE  TaskTypes'
  BY ZenonT(60), <1>3 DEF TaskTypes, EnsureLooks, EnsureVarsUnchanged
<1>4. ASSUME EnsureCreates \/ RevisionStarts
      PROVE  TaskTypes'
  BY SMTT(60), <1>4 DEF TaskTypes, EnsureCreates, RevisionStarts, EnsureVarsUnchanged
<1>5. ASSUME NEW r \in Registrars, NEW q \in Registration, reg' = [reg EXCEPT ![r] = q],
             q.stage # "none" => q.cert # None, UNCHANGED <<reload, ensure, retention>>
      PROVE  TaskTypes'
  BY ZenonT(60), <1>5 DEF TaskTypes
<1>6. ASSUME NEW r \in Registrars, RegistrationStep(r) \/ \E c \in Certs : RegistrationBegins(r, c)
      PROVE  TaskTypes'
  <2>1. NoReg \in Registration /\ NoReg.stage = "none"
    BY SMTT(60) DEF NoReg, Registration
  <2>2. reg[r] \in Registration /\ (reg[r].stage # "none" => reg[r].cert # None)
    BY SMTT(60) DEF TaskTypes
  <2>3. UNCHANGED <<reload, ensure, retention>>
    BY ZenonT(60), <1>6 DEF RegistrationStep, RegistrationRejected, RegistrationLooks, RegistrationCreates,
        RegistrationBegins, RegVarsUnchanged, adminVars
  <2>4. CASE reg' = [reg EXCEPT ![r] = NoReg]
    BY ZenonT(60), <2>1, <2>3, <2>4, <1>5
  <2>5. CASE reg[r].stage = "check" /\ reg' = [reg EXCEPT ![r].stage = "create"]
    <3> DEFINE q == [reg[r] EXCEPT !.stage = "create"]
    <3>1. q \in Registration /\ q.cert # None
      BY <2>2, <2>5 DEF Registration
    <3>2. reg' = [reg EXCEPT ![r] = q]
      BY SMTT(60), <2>5
    <3> HIDE DEF q
    <3> QED
      BY ZenonT(60), <2>3, <3>1, <3>2, <1>5
  <2>6. ASSUME NEW c \in Certs, RegistrationBegins(r, c)
        PROVE  TaskTypes'
    <3> DEFINE q == [stage |-> "check", cert |-> c, current |-> TRUE]
    <3>1. q \in Registration /\ q.cert # None
      BY ZenonT(60), Constants DEF Registration
    <3>2. reg' = [reg EXCEPT ![r] = q]
      BY ZenonT(60), <2>6 DEF RegistrationBegins
    <3> HIDE DEF q
    <3> QED
      BY ZenonT(60), <2>3, <3>1, <3>2, <1>5
  <2> QED
    BY SMTT(60), <1>6, <2>4, <2>5, <2>6 DEF RegistrationStep, RegistrationRejected, RegistrationLooks, RegistrationCreates
<1>7. ASSUME RetentionLists
      PROVE  TaskTypes'
  BY ZenonT(60), <1>7 DEF TaskTypes, StoreTypes, RetentionLists, RetentionVarsUnchanged, adminVars, NoRetention
<1>8. ASSUME NEW c \in Certs, RetentionDecides(c)
      PROVE  TaskTypes'
  <2>1. Surplus(retention.gens[c], active[c]) \in SUBSET (Gen \ {0})
    BY ZenonT(60) DEF TaskTypes, Surplus
  <2> QED
    BY ZenonT(60), <1>8, <2>1 DEF TaskTypes, RetentionDecides, RetentionVarsUnchanged, adminVars
<1>9. ASSUME RetentionDeletes
      PROVE  TaskTypes'
  BY ZenonT(60), <1>9 DEF TaskTypes, RetentionDeletes, RetentionVarsUnchanged, adminVars, NoRetention
<1>10. CASE UNCHANGED <<reload, ensure, reg, retention>>
  BY ZenonT(60), <1>10 DEF TaskTypes
<1> QED
  <2>1. CASE ScanScheduled \/ ScanRequested \/ ScanStep
    BY ZenonT(60), <2>1, <1>10 DEF adminVars, ScanScheduled, ScanRequested, ScanStep, PreparationTimesOut, ListDue,
        ScanEnds, AriSaves, AriFails, AriSkips, AriReads, PrepVarsUnchanged
  <2>2. CASE RuntimeStep
    BY SMTT(60), <2>2, <1>2, <1>3, <1>4 DEF RuntimeStep
  <2>3. CASE \E c \in Certs : JobStep(c)
    BY <2>3, <1>10 DEF adminVars, JobStep, JobStarts, JobChecks, JobIssues, JobFails, JobActivates,
        JobLoads, JobInstalls, JobReadsRow, JobSavesRow, JobTimesOut, JobVarsUnchanged
  <2>4. CASE RequestRenewal \/ \E c \in Certs : SaveCertificate(c) \/ DeleteCertificate(c) \/ UpdatePublish(c)
    BY ZenonT(60), <2>4, <1>10 DEF RequestRenewal, SaveCertificate, DeleteCertificate, UpdatePublish, Submit
  <2>5. CASE \E c \in Certs : Expire(c) \/ GatePasses(c)
    BY SMTT(60), <2>5, <1>10 DEF adminVars, Expire, GatePasses, TimeVarsUnchanged
  <2>6. CASE \E w \in detached : Lands(w)
    BY SMTT(60), <2>6, <1>10 DEF adminVars, Lands, JobVarsUnchanged
  <2>7. CASE UNCHANGED vars
    BY SMTT(60), <2>7, <1>10 DEF vars, adminVars
  <2> QED
    BY ZenonT(60), <2>1, <2>2, <2>3, <2>4, <2>5, <2>6, <2>7, <1>1, <1>6, <1>7, <1>8, <1>9 DEF Next

\* The process starts well typed, with nothing stored, listed or in flight.
LEMMA InitialState ==
    ASSUME Init
    PROVE  TypeOK /\ StoreInv /\ GateInv
<1>1. StoreTypes
  <2>1. PICK p \in Providers : rec = [c \in Certs |-> IF c \in Stored THEN Automatic(p) ELSE None]
    BY SMTT(60) DEF Init
  <2>2. issued \in Gen
    BY SMTT(60), Constants DEF Init
  <2> QED
    BY SMTT(60), <2>1, <2>2, Constants DEF Init, StoreTypes
<1>2. SchedulerTypes
  BY ZenonT(60), Empties DEF Init, SchedulerTypes
<1>3. WriteTypes
  BY DEF Init, WriteTypes
<1>4. TaskTypes
  <2>1. Routed \subseteq Certs
    BY SMTT(60), CertificatesAssumption
  <2>2. NoReg \in Registration /\ NoReg.stage = "none"
    BY SMTT(60) DEF NoReg, Registration
  <2>3. ensure \in [left: SUBSET Certs, found: Certs \cup {None}]
    BY SMTT(60), <2>1 DEF Init, NoEnsure
  <2>4. retention \in [stage: {"idle", "decide"}, left: SUBSET Certs,
                       gens: [Certs -> SUBSET (Gen \ {0})], doomed: [Certs -> SUBSET (Gen \ {0})]]
    BY SMTT(60) DEF Init, NoRetention
  <2> QED
    BY <2>2, <2>3, <2>4 DEF Init, TaskTypes
<1>5. StoreInv
  <2>1. ASSUME NEW c \in Certs
        PROVE  GenerationInv(c)
    <3>1. Arriving(c) = {}
      BY SMTT(60), Empties DEF Init, Arriving
    <3>2. retention.gens[c] = {} /\ retention.doomed[c] = {}
      BY SMTT(60) DEF Init, NoRetention
    <3> QED
      BY SMTT(60), <3>1, <3>2 DEF Init, GenerationInv
  <2> QED
    BY SMTT(60), <2>1 DEF Init, StoreInv
<1>6. GateInv
  BY DEF Init, GateInv, NoReg
<1> QED
  BY SMTT(60), <1>1, <1>2, <1>3, <1>4, <1>5, <1>6 DEF TypeOK

\* The rows, the tasks and the writes in flight keep their types.
THEOREM CertificateTypes == Spec => []TypeOK
<1>1. TypeOK /\ [Next]_vars => TypeOK'
  BY SMTT(60), StoreTypesStep, SchedulerTypesStep, WriteTypesStep, TaskTypesStep DEF TypeOK
<1> QED
  BY <1>1, InitialState, PTL DEF Spec

-----------------------------------------------------------------------------
(* A registration never overwrites a record: it holds certificate_gate     *)
(* from its look-up to its write, and every write of a record takes the    *)
(* gate.                                                                   *)

\* A step that leaves the records, the gate and the stages of the registrations
\* alone preserves the invariant of the gate.
LEMMA GateFrame ==
    ASSUME GateInv, UNCHANGED <<gate, rec>>,
           \A r \in Registrars : reg'[r].stage = reg[r].stage /\ reg'[r].cert = reg[r].cert
    PROVE  GateInv'
BY ZenonT(60) DEF GateInv

\* A write preserves it.
LEMMA GateApply ==
    ASSUME TypeOK, GateInv, NEW w \in Write, Apply(w), UNCHANGED <<gate, reg>>
    PROVE  GateInv'
<1>1. ASSUME NEW r \in Registrars, reg[r].stage = "create"
      PROVE  rec'[reg[r].cert] = None
  <2>1. gate = r /\ gate # None /\ rec[reg[r].cert] = None
    BY ZenonT(60), <1>1, Constants DEF GateInv
  <2>2. reg[r].cert \in Certs
    BY ZenonT(60), <1>1 DEF TypeOK, TaskTypes, Registration
  <2>3. CASE w.kind = "delete"
    BY <2>1, <2>2, <2>3, WriteFields, SMTT(90) DEF Apply, TypeOK, StoreTypes
  <2>4. CASE w.kind # "delete"
    BY ZenonT(60), <2>1, <2>4, WriteFields DEF Apply
  <2> QED
    BY ZenonT(60), <2>3, <2>4
<1> QED
  BY ZenonT(60), <1>1 DEF GateInv

\* Every step preserves the invariant of the gate.
LEMMA GateStep ==
    ASSUME TypeOK, GateInv, [Next]_vars
    PROVE  GateInv'
<1>1. ASSUME NEW r \in Registrars, RegistrationStep(r)
      PROVE  GateInv'
  <2>1. reg[r] \in Registration /\ NoReg.stage = "none" /\ reg \in [Registrars -> Registration]
    BY ZenonT(60) DEF TypeOK, TaskTypes, NoReg
  <2>2. CASE RegistrationRejected(r)
    BY ZenonT(60), <2>1, <2>2 DEF GateInv, RegistrationRejected
  <2>3. CASE RegistrationLooks(r)
    <3>1. \A q \in Registrars : reg[q].stage # "create"
      BY SMTT(60), <2>3, Constants DEF GateInv, RegistrationLooks
    <3>2. CASE rec[reg[r].cert] # None
      BY SMTT(60), <2>1, <2>3, <3>1, <3>2 DEF GateInv, RegistrationLooks
    <3>3. CASE rec[reg[r].cert] = None
      <4>1. reg' = [reg EXCEPT ![r].stage = "create"] /\ gate' = r /\ rec' = rec
        BY SMTT(60), <2>3, <3>3 DEF RegistrationLooks
      <4>2. reg'[r].cert = reg[r].cert /\ \A q \in Registrars \ {r} : reg'[q] = reg[q]
        BY SMTT(60), <2>1, <4>1 DEF Registration
      <4> QED
        BY SMTT(60), <3>1, <3>3, <4>1, <4>2 DEF GateInv
    <3> QED
      BY ZenonT(60), <3>2, <3>3
  <2>4. CASE RegistrationCreates(r)
    <3>1. \A q \in Registrars : reg'[q].stage # "create"
      BY ZenonT(60), <2>1, <2>4 DEF GateInv, RegistrationCreates
    <3> QED
      BY ZenonT(60), <3>1 DEF GateInv
  <2> QED
    BY SMTT(60), <1>1, <2>2, <2>3, <2>4 DEF RegistrationStep
<1>2. ASSUME NEW r \in Registrars, NEW c \in Certs, RegistrationBegins(r, c)
      PROVE  GateInv'
  BY ZenonT(60), <1>2 DEF GateInv, RegistrationBegins, TypeOK, TaskTypes
<1>3. ASSUME RevisionEnds
      PROVE  GateInv'
  <2>1. ASSUME NEW r \in Registrars
        PROVE  reg'[r].stage = reg[r].stage /\ reg'[r].cert = reg[r].cert
    <3>1. reg' = [q \in Registrars |-> [reg[q] EXCEPT !.current = FALSE]]
      BY SMTT(60), <1>3 DEF RevisionEnds
    <3>2. reg[r] \in Registration
      BY SMTT(60) DEF TypeOK, TaskTypes
    <3> QED
      BY SMTT(60), <3>1, <3>2 DEF Registration
  <2> QED
    BY SMTT(60), <1>3, <2>1, GateFrame DEF RevisionEnds, storeVars
<1>4. ASSUME EnsureCreates
      PROVE  GateInv'
  <2>1. \A r \in Registrars : reg[r].stage # "create"
    BY SMTT(60), <1>4, Constants DEF EnsureCreates, GateInv
  <2> QED
    BY SMTT(60), <1>4, <2>1 DEF EnsureCreates, EnsureVarsUnchanged, GateInv
<1>5. ASSUME NEW s \in Slots, AdminWrites(s)
      PROVE  GateInv'
  <2>1. admin[s] \in Write
    BY ZenonT(60), <1>5 DEF TypeOK, WriteTypes, AdminWrites
  <2> QED
    BY ZenonT(60), <1>5, <2>1, GateApply DEF AdminWrites
<1>6. ASSUME NEW w \in detached, Lands(w)
      PROVE  GateInv'
  BY ZenonT(60), <1>6, GateApply DEF TypeOK, WriteTypes, Lands, JobVarsUnchanged
<1>7. ASSUME UNCHANGED <<gate, rec, reg>>
      PROVE  GateInv'
  BY SMTT(60), <1>7, GateFrame
<1>8. ASSUME NEW c \in Certs, JobStep(c)
      PROVE  GateInv'
  <2>1. UNCHANGED rec
    BY ZenonT(60), <1>8 DEF JobStep, JobStarts, JobChecks, JobIssues, JobFails, JobActivates,
        JobLoads, JobInstalls, JobReadsRow, JobSavesRow, JobTimesOut, Apply, ActivateWrite, RowWrite
  <2>2. UNCHANGED <<gate, reg>>
    BY ZenonT(60), <1>8 DEF JobStep, JobStarts, JobChecks, JobIssues, JobFails, JobActivates,
        JobLoads, JobInstalls, JobReadsRow, JobSavesRow, JobTimesOut, JobVarsUnchanged
  <2> QED
    BY SMTT(60), <2>1, <2>2, <1>7
<1> QED
  <2>1. CASE ScanScheduled \/ ScanRequested \/ ScanStep
    BY ZenonT(60), <2>1, <1>7 DEF storeVars, ScanScheduled, ScanRequested, ScanStep, PreparationTimesOut, ListDue,
        ScanEnds, AriSaves, AriFails, AriSkips, AriReads, PrepVarsUnchanged
  <2>2. CASE RuntimeStep
    BY ZenonT(60), <2>2, <1>3, <1>4, <1>7 DEF RuntimeStep, RevisionStarts, EnsureLooks, EnsureVarsUnchanged, storeVars
  <2>3. CASE RequestRenewal \/ \E c \in Certs : SaveCertificate(c) \/ DeleteCertificate(c) \/ UpdatePublish(c)
    BY ZenonT(60), <2>3, <1>7 DEF RequestRenewal, SaveCertificate, DeleteCertificate, UpdatePublish, Submit, storeVars
  <2>4. CASE RetentionLists \/ RetentionDeletes \/ \E c \in Certs : RetentionDecides(c)
    BY ZenonT(60), <2>4, <1>7 DEF RetentionLists, RetentionDeletes, RetentionDecides, RetentionVarsUnchanged
  <2>5. CASE \E c \in Certs : Expire(c) \/ GatePasses(c)
    BY SMTT(60), <2>5, <1>7 DEF Expire, GatePasses, TimeVarsUnchanged
  <2>6. CASE UNCHANGED vars
    BY SMTT(60), <2>6, <1>7 DEF vars, storeVars
  <2> QED
    BY ZenonT(60), <2>1, <2>2, <2>3, <2>4, <2>5, <2>6, <1>1, <1>2, <1>5, <1>6, <1>8 DEF Next

\* "a runtime auto-registration can never overwrite an administrator's explicit
\* configuration for the same domain", whatever else writes records
\* (create_automatic_certificate_if_absent).
THEOREM RegistrationSafe == Spec => []RegistrationNeverOverwrites
<1>1. GateInv => RegistrationNeverOverwrites
  BY SMTT(60) DEF GateInv, RegistrationNeverOverwrites
<1> QED
  BY <1>1, InitialState, GateStep, CertificateTypes, PTL DEF Spec

-----------------------------------------------------------------------------
(* The active pointer has its generation. *)

\* An activation carries its certificate and generation and is no other write.
LEMMA Activation ==
    ASSUME NEW c, NEW g
    PROVE  ActivateWrite(c, g).kind = "activate" /\ ActivateWrite(c, g).cert = c /\ ActivateWrite(c, g).gen = g
BY SMTT(60) DEF ActivateWrite

\* The activation a renewal waits for is the one of its own generation.
LEMMA WriteOfActivation ==
    ASSUME NEW c \in Certs, NEW d \in Certs, NEW g \in Gen, ActivateWrite(c, g) \in WriteOf(d)
    PROVE  c = d /\ job[d].stage = "activate" /\ job[d].gen = g
<1>1. CASE job[d].stage = "activate"
  BY SMTT(60), <1>1, Activation DEF WriteOf
<1>2. CASE job[d].stage \in {"failsave", "timedsave"}
  BY SMTT(60), <1>2, Activation DEF WriteOf, RowWrite
<1>3. CASE job[d].stage \notin {"activate", "failsave", "timedsave"}
  BY SMTT(60), <1>3 DEF WriteOf
<1> QED
  BY ZenonT(60), <1>1, <1>2, <1>3

\* The generations of a certificate only leave: nothing new arrives, is listed
\* or becomes active.
LEMMA GenerationFrame ==
    ASSUME NEW c \in Certs, GenerationInv(c), TypeOK,
           Arriving(c)' \subseteq Arriving(c),
           gens'[c] \subseteq gens[c],
           active'[c] = 0 \/ (active'[c] = active[c] /\ gens'[c] = gens[c]),
           UNCHANGED <<issued, retention>>,
           job'[c].stage = "activate" => ActivateWrite(c, job'[c].gen) \notin detached'
    PROVE  GenerationInv(c)'
<1>1. retention.doomed[c] \subseteq retention.gens[c] \ {active'[c]}
  <2>1. 0 \notin retention.gens[c]
    BY ZenonT(60) DEF TypeOK, TaskTypes
  <2> QED
    BY ZenonT(60), <2>1 DEF GenerationInv
<1> QED
  BY ZenonT(60), <1>1 DEF GenerationInv

\* A write that is no activation preserves the invariant, wherever it came from.
LEMMA GenerationApply ==
    ASSUME NEW c \in Certs, GenerationInv(c), TypeOK, NEW w \in Write, w.kind # "activate", Apply(w),
           UNCHANGED <<issued, retention, job>>, detached' \subseteq detached
    PROVE  GenerationInv(c)'
<1>1. Arriving(c)' \subseteq Arriving(c)
  BY ZenonT(60) DEF Arriving
<1>2. gens'[c] \subseteq gens[c] /\ (active'[c] = 0 \/ (active'[c] = active[c] /\ gens'[c] = gens[c]))
  BY WriteFields, SMTT(90) DEF Apply, TypeOK, StoreTypes
<1>3. job'[c].stage = "activate" => ActivateWrite(c, job'[c].gen) \notin detached'
  BY ZenonT(60) DEF GenerationInv
<1> QED
  BY ZenonT(60), <1>1, <1>2, <1>3, GenerationFrame

\* A generation arriving is stored and becomes active.
LEMMA GenerationArrives ==
    ASSUME NEW c \in Certs, GenerationInv(c), TypeOK, NEW d \in Certs, NEW g \in Gen,
           d = c => g \in Arriving(c) /\ g \notin Arriving(c)',
           Arriving(c)' \subseteq Arriving(c),
           gens' = [gens EXCEPT ![d] = @ \cup {g}],
           active' = [active EXCEPT ![d] = g],
           UNCHANGED <<issued, retention>>,
           job'[c].stage = "activate" => ActivateWrite(c, job'[c].gen) \notin detached'
    PROVE  GenerationInv(c)'
<1>1. CASE d = c
  <2>1. gens'[c] = gens[c] \cup {g} /\ active'[c] = g
    BY ZenonT(60), <1>1 DEF TypeOK, StoreTypes
  <2> QED
    BY <1>1, <2>1, SMTT(90) DEF GenerationInv
<1>2. CASE d # c
  <2>1. gens'[c] = gens[c] /\ active'[c] = active[c]
    BY ZenonT(60), <1>2 DEF TypeOK, StoreTypes
  <2> QED
    BY ZenonT(60), <2>1 DEF GenerationInv
<1> QED
  BY ZenonT(60), <1>1, <1>2

\* The steps that store, list, delete, issue or hand over a generation, or
\* submit or perform a write.
GenerationChange ==
    \/ RevisionEnds \/ RetentionLists \/ RetentionDeletes
    \/ \E c \in Certs : JobIssues(c) \/ JobActivates(c) \/ JobTimesOut(c) \/ RetentionDecides(c)
    \/ \E s \in Slots : AdminWrites(s)
    \/ \E w \in detached : Lands(w)

\* The other steps leave all of it alone, and no renewal reaches "activate".
LEMMA GenerationsFrame ==
    ASSUME TypeOK, [Next]_vars, ~GenerationChange
    PROVE  /\ UNCHANGED <<gens, active, issued, detached, retention>>
           /\ \A c \in Certs : job'[c].stage = "activate" => job'[c] = job[c]
<1>1. ASSUME NEW c \in Certs, NEW j, job' = [job EXCEPT ![c] = j], j.stage # "activate"
      PROVE  \A d \in Certs : job'[d].stage = "activate" => job'[d] = job[d]
  BY ZenonT(60), <1>1 DEF TypeOK, SchedulerTypes
<1>2. ASSUME NEW c \in Certs, JobStep(c)
      PROVE  /\ UNCHANGED <<gens, active, issued, detached, retention>>
             /\ \A d \in Certs : job'[d].stage = "activate" => job'[d] = job[d]
  <2>1. UNCHANGED <<issued, detached, retention>>
    BY ZenonT(60), <1>2 DEF GenerationChange, JobStep, JobStarts, JobChecks, JobFails, JobLoads, JobInstalls,
        JobReadsRow, JobSavesRow, JobVarsUnchanged
  <2>2. UNCHANGED <<gens, active>>
    BY ZenonT(60), <1>2 DEF GenerationChange, JobStep, JobStarts, JobChecks, JobFails, JobLoads, JobInstalls,
        JobReadsRow, JobSavesRow, Apply, RowWrite
  <2>3. job[c] \in Job /\ job \in [Certs -> Job]
    BY ZenonT(60) DEF TypeOK, SchedulerTypes
  <2>4. \A d \in Certs \ {c} : job'[d] = job[d]
    BY ZenonT(60), <1>2, <2>3 DEF GenerationChange, JobStep, JobStarts, JobChecks, JobFails, JobLoads, JobInstalls,
        JobReadsRow, JobSavesRow, Goto
  <2>5. job'[c].stage # "activate"
    <3>1. ASSUME NEW stage, Goto(c, stage), stage # "activate"
          PROVE  job'[c].stage # "activate"
      BY SMTT(60), <3>1, <2>3 DEF Goto, Job
    <3>2. CASE JobStarts(c)
      BY SMTT(60), <3>1, <3>2 DEF JobStarts
    <3>3. CASE JobChecks(c)
      BY SMTT(60), <3>1, <3>3 DEF JobChecks
    <3>4. CASE JobFails(c)
      BY SMTT(60), <3>1, <3>4 DEF JobFails
    <3>5. CASE JobInstalls(c) \/ JobSavesRow(c)
      BY ZenonT(60), <3>5, <2>3, Empties DEF JobInstalls, JobSavesRow
    <3>6. CASE JobLoads(c)
      <4>1. job' = [job EXCEPT ![c].stage = "install", ![c].entries = Entries]
        BY SMTT(60), <3>6 DEF JobLoads
      <4> QED
        BY SMTT(60), <4>1, <2>3 DEF Job
    <3>7. CASE JobReadsRow(c)
      <4>1. PICK stage \in {"timedsave", "failsave"}, g \in {"backoff", "ca"} :
                job' = [job EXCEPT ![c].stage = stage,
                                   ![c].row = [gate |-> g, ari |-> row[c] # None /\ row[c].ari]]
        BY ZenonT(60), <3>7 DEF JobReadsRow
      <4> QED
        BY SMTT(60), <4>1, <2>3 DEF Job
    <3> QED
      BY ZenonT(60), <1>2, <3>2, <3>3, <3>4, <3>5, <3>6, <3>7 DEF GenerationChange, JobStep
  <2> QED
    BY ZenonT(60), <2>1, <2>2, <2>4, <2>5
<1>3. ASSUME ListDue
      PROVE  \A c \in Certs : job'[c].stage # "activate"
  <2>1. ASSUME NEW c \in Certs
        PROVE  job'[c].stage # "activate"
    <3>1. job'[c] = NoJob \/ job'[c] = [NoJob EXCEPT !.stage = "queued", !.provider = rec[c].provider]
      BY ZenonT(60), <1>3 DEF ListDue
    <3>2. [NoJob EXCEPT !.stage = "queued", !.provider = rec[c].provider].stage = "queued"
      BY SMTT(60) DEF NoJob
    <3> QED
      BY ZenonT(60), <3>1, <3>2, Empties
  <2> QED
    BY <2>1
<1> QED
  <2>1. CASE ScanScheduled \/ ScanRequested \/ ScanStep
    BY ZenonT(60), <2>1, <1>3 DEF storeVars, ScanScheduled, ScanRequested, ScanStep, PreparationTimesOut, ListDue,
        ScanEnds, AriSaves, AriFails, AriSkips, AriReads, PrepVarsUnchanged
  <2>2. CASE RuntimeStep
    BY SMTT(60), <2>2 DEF GenerationChange, RuntimeStep, EnsureCreates, RevisionStarts, EnsureLooks,
        EnsureVarsUnchanged, storeVars, schedVars
  <2>3. CASE RequestRenewal \/ \E c \in Certs : SaveCertificate(c) \/ DeleteCertificate(c) \/ UpdatePublish(c)
    BY ZenonT(60), <2>3 DEF RequestRenewal, SaveCertificate, DeleteCertificate, UpdatePublish, Submit, storeVars, schedVars
  <2>4. CASE \E c \in Certs : Expire(c) \/ GatePasses(c)
    BY SMTT(60), <2>4 DEF Expire, GatePasses, TimeVarsUnchanged, schedVars
  <2>5. CASE \E r \in Registrars : RegistrationStep(r) \/ \E c \in Certs : RegistrationBegins(r, c)
    BY SMTT(60), <2>5 DEF RegistrationStep, RegistrationRejected, RegistrationLooks, RegistrationCreates,
        RegistrationBegins, RegVarsUnchanged
  <2>6. CASE UNCHANGED vars
    BY SMTT(60), <2>6 DEF vars, storeVars, schedVars
  <2> QED
    BY ZenonT(60), <2>1, <2>2, <2>3, <2>4, <2>5, <2>6, <1>2 DEF Next, GenerationChange

\* No admin request activates a generation, and no generation is active, listed
\* or doomed before it has arrived or arrives twice.
LEMMA StoreInvStep ==
    ASSUME TypeOK, StoreInv, [Next]_vars
    PROVE  StoreInv'
<1>1. \A s \in Slots : admin'[s] # None => admin'[s].kind # "activate"
  <2>1. CASE UNCHANGED admin
    BY SMTT(60), <2>1 DEF StoreInv
  <2>2. ASSUME NEW t \in Slots, NEW w, Submit(t, w), w.kind # "activate"
        PROVE  \A s \in Slots : admin'[s] # None => admin'[s].kind # "activate"
    BY SMTT(60), <2>2 DEF StoreInv, TypeOK, WriteTypes, Submit
  <2>3. CASE RequestRenewal \/ \E c \in Certs : SaveCertificate(c) \/ DeleteCertificate(c) \/ UpdatePublish(c)
    <3>1. CASE RequestRenewal
      <4> DEFINE w == ClearWrite([c \in Certs |-> Cleared(row[c])])
      <4>1. w.kind # "activate"
        BY SMTT(60) DEF ClearWrite
      <4>2. Submit("renew", w)
        BY SMTT(60), <3>1 DEF RequestRenewal
      <4> HIDE DEF w
      <4> QED
        BY SMTT(60), <2>2, <4>1, <4>2 DEF Slots
    <3>2. ASSUME NEW c \in Certs, SaveCertificate(c)
          PROVE  \A s \in Slots : admin'[s] # None => admin'[s].kind # "activate"
      <4>1. PICK r \in Record : Submit("config", RecordWrite(c, r))
        BY SMTT(60), <3>2 DEF SaveCertificate
      <4>2. RecordWrite(c, r).kind # "activate"
        BY SMTT(60) DEF RecordWrite
      <4> QED
        BY ZenonT(60), <2>2, <4>1, <4>2 DEF Slots
    <3>3. ASSUME NEW c \in Certs, DeleteCertificate(c)
          PROVE  \A s \in Slots : admin'[s] # None => admin'[s].kind # "activate"
      <4>1. DeleteWrite(c, gens[c]).kind # "activate"
        BY SMTT(60) DEF DeleteWrite
      <4> QED
        BY ZenonT(60), <2>2, <3>3, <4>1 DEF DeleteCertificate, Slots
    <3>4. ASSUME NEW c \in Certs, UpdatePublish(c)
          PROVE  \A s \in Slots : admin'[s] # None => admin'[s].kind # "activate"
      <4>1. RecordWrite(c, rec[c]).kind # "activate"
        BY SMTT(60) DEF RecordWrite
      <4> QED
        BY ZenonT(60), <2>2, <3>4, <4>1 DEF UpdatePublish, Slots
    <3> QED
      BY ZenonT(60), <2>3, <3>1, <3>2, <3>3, <3>4
  <2>4. CASE \E s \in Slots : AdminWrites(s)
    BY SMTT(60), <2>4 DEF StoreInv, TypeOK, WriteTypes, AdminWrites
  <2>5. CASE RevisionEnds
    BY SMTT(60), <2>5 DEF RevisionEnds
  <2>6. CASE ScanScheduled \/ ScanRequested \/ ScanStep
    BY ZenonT(60), <2>6, <2>1 DEF adminVars, ScanScheduled, ScanRequested, ScanStep, PreparationTimesOut, ListDue,
        ScanEnds, AriSaves, AriFails, AriSkips, AriReads, PrepVarsUnchanged
  <2>7. CASE RuntimeStep
    BY SMTT(60), <2>7, <2>1, <2>5 DEF RuntimeStep, EnsureCreates, RevisionStarts, EnsureLooks, EnsureVarsUnchanged
  <2>8. CASE \E c \in Certs : JobStep(c)
    BY ZenonT(60), <2>8, <2>1 DEF adminVars, JobStep, JobStarts, JobChecks, JobIssues, JobFails, JobActivates,
        JobLoads, JobInstalls, JobReadsRow, JobSavesRow, JobTimesOut, JobVarsUnchanged
  <2>9. CASE RetentionLists \/ RetentionDeletes \/ \E c \in Certs : RetentionDecides(c)
    BY ZenonT(60), <2>9, <2>1 DEF adminVars, RetentionLists, RetentionDeletes, RetentionDecides, RetentionVarsUnchanged
  <2>10. CASE \E c \in Certs : Expire(c) \/ GatePasses(c)
    BY SMTT(60), <2>10, <2>1 DEF adminVars, Expire, GatePasses, TimeVarsUnchanged
  <2>11. CASE \E r \in Registrars : RegistrationStep(r) \/ \E c \in Certs : RegistrationBegins(r, c)
    BY SMTT(60), <2>11, <2>1 DEF adminVars, RegistrationStep, RegistrationRejected, RegistrationLooks,
        RegistrationCreates, RegistrationBegins, RegVarsUnchanged
  <2>12. CASE \E w \in detached : Lands(w)
    BY ZenonT(60), <2>12, <2>1 DEF adminVars, Lands, JobVarsUnchanged
  <2>13. CASE UNCHANGED vars
    BY ZenonT(60), <2>13, <2>1 DEF vars, adminVars
  <2> QED
    BY ZenonT(60), <2>3, <2>4, <2>6, <2>7, <2>8, <2>9, <2>10, <2>11, <2>12, <2>13 DEF Next
<1>2. ASSUME NEW c \in Certs
      PROVE  GenerationInv(c)'
  <2>1. GenerationInv(c)
    BY SMTT(60) DEF StoreInv
  <2>2. job \in [Certs -> Job] /\ job[c] \in Job
    BY ZenonT(60) DEF TypeOK, SchedulerTypes
  <2>3. CASE ~GenerationChange
    <3>1. /\ UNCHANGED <<gens, active, issued, detached, retention>>
          /\ job'[c].stage = "activate" => job'[c] = job[c]
      BY SMTT(60), <2>3, GenerationsFrame
    <3>2. Arriving(c)' \subseteq Arriving(c)
      BY SMTT(60), <3>1 DEF Arriving
    <3> QED
      BY ZenonT(60), <2>1, <3>1, <3>2, GenerationFrame DEF GenerationInv
  <2>4. ASSUME NEW d \in Certs, JobIssues(d)
        PROVE  GenerationInv(c)'
    <3>1. issued \in Nat /\ issued' = issued + 1 /\ issued + 1 \notin 1 .. issued
      BY <2>4, Constants DEF JobIssues, TypeOK, StoreTypes
    <3>2. UNCHANGED <<gens, active, detached, retention>>
      BY <2>4 DEF JobIssues, JobVarsUnchanged
    <3>3. job'[c] = job[c] \/ (job'[c].gen = issued + 1 /\ job[c].stage # "activate")
      BY SMTT(60), <2>2, <2>4 DEF JobIssues, Job
    <3>4. Arriving(c)' \subseteq Arriving(c) \cup {issued + 1}
      BY <3>2, <3>3 DEF Arriving
    <3>5. issued + 1 \in Gen /\ (job'[c] # job[c] => ActivateWrite(c, issued + 1) \notin detached)
      BY <2>1, <2>4, <3>1, CertificatesAssumption DEF GenerationInv, Arriving, JobIssues, Gen
    <3>6. 1 .. issued \subseteq 1 .. issued'
      BY <3>1
    <3>7. issued + 1 \in 1 .. issued'
      BY SMTT(60), <3>1
    <3> HIDE DEF Arriving
    <3> QED
      BY SMTT(60), <2>1, <3>1, <3>2, <3>3, <3>4, <3>5, <3>6, <3>7 DEF GenerationInv
  <2>5. ASSUME NEW d \in Certs, JobActivates(d)
        PROVE  GenerationInv(c)'
    <3> DEFINE g == job[d].gen
    <3>1. g \in Gen /\ job[d].stage = "activate" /\ job[d] \in Job
      BY <2>5 DEF JobActivates, TypeOK, SchedulerTypes, Job
    <3>2. gens' = [gens EXCEPT ![d] = @ \cup {g}] /\ active' = [active EXCEPT ![d] = g]
      BY <2>5 DEF JobActivates, Apply, ActivateWrite
    <3>3. UNCHANGED <<issued, retention, detached>>
      BY <2>5 DEF JobActivates, JobVarsUnchanged
    <3>4. job'[d].stage = "load" /\ (c # d => job'[c] = job[c])
      BY SMTT(60), <2>2, <2>5, <3>1 DEF JobActivates, Goto, Job
    <3>5. Arriving(c)' \subseteq Arriving(c)
      BY SMTT(60), <3>3, <3>4 DEF Arriving
    <3>6. d = c => g \in Arriving(c) /\ g \notin Arriving(c)'
      BY SMTT(60), <2>1, <3>1, <3>3, <3>4 DEF Arriving, GenerationInv
    <3>7. job'[c].stage = "activate" => ActivateWrite(c, job'[c].gen) \notin detached'
      BY SMTT(60), <2>1, <3>3, <3>4 DEF GenerationInv
    <3> HIDE DEF g
    <3> QED
      BY ZenonT(60), <2>1, <3>1, <3>2, <3>3, <3>5, <3>6, <3>7, GenerationArrives
  <2>6. ASSUME NEW d \in Certs, JobTimesOut(d)
        PROVE  GenerationInv(c)'
    <3>1. detached' = detached \cup WriteOf(d) /\ UNCHANGED <<gens, active, issued, retention>>
      BY <2>6 DEF JobTimesOut, JobVarsUnchanged
    <3>2. job'[d].stage = "timedout" /\ (c # d => job'[c] = job[c])
      BY SMTT(60), <2>2, <2>6 DEF JobTimesOut, NoJob
    <3>3. Arriving(c)' \subseteq Arriving(c)
      BY SMTT(60), <3>1, <3>2, WriteOfActivation DEF Arriving
    <3>4. job'[c].stage = "activate" => ActivateWrite(c, job'[c].gen) \notin detached'
      BY SMTT(60), <2>1, <2>2, <3>1, <3>2, WriteOfActivation DEF GenerationInv, Job
    <3> QED
      BY <2>1, <3>1, <3>3, <3>4, GenerationFrame
  <2>7. ASSUME NEW s \in Slots, AdminWrites(s)
        PROVE  GenerationInv(c)'
    <3>1. admin[s] \in Write /\ admin[s].kind # "activate"
      BY <2>7 DEF AdminWrites, StoreInv, TypeOK, WriteTypes
    <3> QED
      BY SMTT(60), <2>1, <2>7, <3>1, GenerationApply DEF AdminWrites
  <2>8. ASSUME NEW w \in detached, Lands(w)
        PROVE  GenerationInv(c)'
    <3>1. w \in Write /\ Apply(w) /\ UNCHANGED <<issued, retention, job>> /\ detached' = detached \ {w}
      BY SMTT(60), <2>8 DEF Lands, TypeOK, WriteTypes, JobVarsUnchanged
    <3>2. CASE w.kind # "activate"
      BY SMTT(60), <2>1, <3>1, <3>2, GenerationApply
    <3>3. CASE w.kind = "activate"
      <4> DEFINE d == w.cert
                 g == w.gen
      <4>1. d \in Certs /\ g \in Gen /\ w = ActivateWrite(d, g)
        BY ZenonT(60), <3>1, <3>3 DEF Write, ActivateWrite
      <4>2. gens' = [gens EXCEPT ![d] = @ \cup {g}] /\ active' = [active EXCEPT ![d] = g]
        BY <3>1, <3>3 DEF Apply
      <4> HIDE DEF d, g
      <4>3. Arriving(c)' \subseteq Arriving(c)
        BY SMTT(60), <3>1 DEF Arriving
      <4>4. d = c => g \in Arriving(c) /\ g \notin Arriving(c)'
        BY SMTT(60), <2>1, <3>1, <4>1 DEF Arriving, GenerationInv
      <4>5. job'[c].stage = "activate" => ActivateWrite(c, job'[c].gen) \notin detached'
        BY SMTT(60), <2>1, <3>1 DEF GenerationInv
      <4> QED
        BY ZenonT(60), <2>1, <3>1, <4>1, <4>2, <4>3, <4>4, <4>5, GenerationArrives
    <3> QED
      BY SMTT(60), <3>2, <3>3
  <2>9. ASSUME RevisionEnds
        PROVE  GenerationInv(c)'
    <3>1. UNCHANGED <<gens, active, issued, retention>> /\ job'[c].stage # "activate"
      BY <2>9, Empties DEF RevisionEnds, storeVars
    <3>2. PICK ws \in AriWrites :
              detached' = detached \cup ws \cup (UNION {WriteOf(d) : d \in Certs})
                              \cup {admin[s] : s \in {t \in Slots : admin[t] # None}}
      BY <2>9 DEF RevisionEnds
    <3>3. \A w \in ws : w.kind = "row"
      BY DEF AriWrites, RowWrite
    <3>4. \A s \in {t \in Slots : admin[t] # None} : admin[s].kind # "activate"
      BY DEF StoreInv
    <3>5. \A g \in Gen : ActivateWrite(c, g) \in detached' =>
              \/ ActivateWrite(c, g) \in detached
              \/ \E d \in Certs : ActivateWrite(c, g) \in WriteOf(d)
      BY SMTT(60), <3>2, <3>3, <3>4, Activation
    <3>6. Arriving(c)' \subseteq Arriving(c)
      BY SMTT(60), <3>1, <3>5, WriteOfActivation DEF Arriving
    <3> QED
      BY <2>1, <3>1, <3>6, GenerationFrame
  <2>10. ASSUME UNCHANGED <<active, issued, job, detached>>, gens'[c] \subseteq gens[c],
                retention'.gens[c] \subseteq gens[c] \cup retention.gens[c],
                retention'.doomed[c] \subseteq retention'.gens[c] \ {active[c]},
                active[c] # 0 => active[c] \in gens'[c]
         PROVE  GenerationInv(c)'
    <3>1. Arriving(c)' = Arriving(c)
      BY SMTT(60), <2>10 DEF Arriving
    <3> QED
      BY SMTT(60), <2>1, <2>10, <3>1 DEF GenerationInv
  <2>11. ASSUME RetentionLists
         PROVE  GenerationInv(c)'
    <3>1. retention' = [stage |-> "decide", left |-> {d \in Certs : gens[d] # {}}, gens |-> gens,
                        doomed |-> [d \in Certs |-> {}]]
      BY ZenonT(60), <2>11 DEF RetentionLists, NoRetention
    <3>2. retention'.gens[c] = gens[c] /\ retention'.doomed[c] = {}
      BY <3>1
    <3>3. UNCHANGED <<gens, active, issued, job, detached>>
      BY <2>11 DEF RetentionLists, RetentionVarsUnchanged, schedVars
    <3> QED
      BY <2>1, <2>10, <3>2, <3>3 DEF GenerationInv
  <2>12. ASSUME RetentionDeletes
         PROVE  GenerationInv(c)'
    <3>1. retention'.gens[c] = {} /\ retention'.doomed[c] = {}
      BY <2>12 DEF RetentionDeletes, NoRetention
    <3>2. gens'[c] = gens[c] \ retention.doomed[c]
      BY <2>12 DEF RetentionDeletes
    <3> QED
      BY ZenonT(60), <2>1, <2>10, <2>12, <3>1, <3>2 DEF RetentionDeletes, RetentionVarsUnchanged, schedVars, GenerationInv
  <2>13. ASSUME NEW d \in Certs, RetentionDecides(d)
         PROVE  GenerationInv(c)'
    <3>1. retention' = [retention EXCEPT !.left = @ \ {d},
                                         !.doomed[d] = Surplus(retention.gens[d], active[d])]
      BY <2>13 DEF RetentionDecides
    <3>2. retention'.gens = retention.gens
      BY <3>1 DEF TypeOK, TaskTypes
    <3>3. retention'.doomed = [retention.doomed EXCEPT ![d] = Surplus(retention.gens[d], active[d])]
      BY <3>1 DEF TypeOK, TaskTypes
    <3>4. Surplus(retention.gens[d], active[d]) \subseteq retention.gens[d] \ {active[d]}
      BY DEF Surplus
    <3>5. retention.doomed \in [Certs -> SUBSET (Gen \ {0})]
      BY SMTT(60) DEF TypeOK, TaskTypes
    <3>6. retention'.doomed[c] \subseteq retention.gens[c] \ {active[c]}
      BY <2>1, <3>3, <3>4, <3>5 DEF GenerationInv
    <3> QED
      BY <2>1, <2>10, <2>13, <3>2, <3>6 DEF RetentionDecides, RetentionVarsUnchanged, schedVars, GenerationInv
  <2> QED
    BY SMTT(60), <2>3, <2>4, <2>5, <2>6, <2>7, <2>8, <2>9, <2>11, <2>12, <2>13 DEF GenerationChange
<1> QED
  BY SMTT(60), <1>1, <1>2 DEF StoreInv

\* The active pointer of a certificate always points to a stored generation,
\* whatever the retention task, a deletion, a renewal past its deadline and a
\* write landing late do (activate_generation, cleanup_retention,
\* delete_managed_certificate).
THEOREM ActiveSafe == Spec => []ActiveHasGeneration
<1>1. StoreInv => ActiveHasGeneration
  BY DEF StoreInv, GenerationInv, ActiveHasGeneration
<1> QED
  BY <1>1, InitialState, StoreInvStep, CertificateTypes, PTL DEF Spec
=============================================================================
