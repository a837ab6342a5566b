----------------------------- MODULE SessionProofs -----------------------------
(***************************************************************************)
(* Safety of the session middlewares for every set of requests and ids, in *)
(* whatever mix of the three forms, with or without failing store calls.   *)
(***************************************************************************)
EXTENDS Session, TLAPS

\* A request that works on a session has an id for it.
SidOK ==
    \A r \in Requests :
        pc[r] \in {"loading", "handling", "saving"} \/ reply[r] = "ok" => sid[r] \in Ids

\* A request saves at most once, at its end, and what is saved is in the store.
SavedOK ==
    \A r \in saved : pc[r] \in {"done", "dropped"} /\ sid[r] \in present

\* A value holds the writes of requests that saved, and of the one at work on it.
\* Nothing is loaded but by the load.
DataOK ==
    /\ \A i \in Ids : store[i] \subseteq saved
    /\ \A r \in Requests :
         /\ data[r] \subseteq saved \cup {r}
         /\ base[r] \subseteq saved
         /\ pc[r] \in {"new", "loading"} => data[r] = {} /\ base[r] = {}

\* What must be saved is marked: a session begun without a cookie, and a write.
DirtyOK ==
    \A r \in Requests :
        /\ pc[r] = "new" => cookie[r] = "none"
        /\ pc[r] = "loading" => cookie[r] # "none"
        /\ pc[r] = "handling" /\ (cookie[r] = "none" \/ r \in data[r]) => dirty[r]

\* A request is answered once; a write that is answered is saved, and so is a
\* session begun without a cookie.
RepliedOK ==
    \A r \in Requests :
        /\ reply[r] # "none" => pc[r] = "done"
        /\ reply[r] = "ok" /\ (cookie[r] = "none" \/ r \in data[r]) => r \in saved

\* Somebody who had not loaded the write of r has saved its session.
Overtaken(r) == \E q \in saved \ {r} : sid[q] = sid[r] /\ r \notin base[q]

\* A write on record is in the store, and in what was loaded since, until it is
\* overtaken.
KeptOK ==
    \A r \in saved : r \in data[r] =>
        /\ r \in store[sid[r]] \/ Overtaken(r)
        /\ \A q \in Requests :
             sid[q] = sid[r] /\ r \in base[q] => r \in data[q] \/ Overtaken(r)

\* Behind RequiredSession the session was found in the store.
RequiredOK ==
    \A r \in Requests :
        pc[r] \in {"handling", "saving"} /\ ModeOf[r] = "required_session" =>
            sid[r] \in present

IInv ==
    /\ TypeOK
    /\ SidOK
    /\ SavedOK
    /\ DataOK
    /\ DirtyOK
    /\ RepliedOK
    /\ KeptOK
    /\ RequiredOK

-------------------------------------------------------------------------------
(* One lemma per conjunct: what a step preserves, action by action. *)

LEMMA TypeStep ==
    ASSUME TypeOK, SidOK, [Next]_vars
    PROVE  TypeOK'
<1> USE SessionAssumption DEF TypeOK, SidOK, Goto, Fail, Modes
<1>1. ASSUME UNCHANGED vars PROVE TypeOK'
    BY <1>1 DEF vars, local
<1>2. ASSUME NEW r \in Requests, NoCookie(r) \/ BrokenCookie(r) \/ GoodCookie(r)
      PROVE  TypeOK'
  <2>1. PICK c \in {"none", "broken", "id"}, id \in Ids, isNew \in BOOLEAN,
             isDirty \in BOOLEAN, next \in {"handling", "loading"} :
          Begin(r, c, id, isNew, isDirty, next)
    <3>1. CASE NoCookie(r)
        BY <3>1 DEF NoCookie, Unused
    <3>2. CASE BrokenCookie(r)
        BY <3>2 DEF BrokenCookie, Unused
    <3>3. CASE GoodCookie(r)
        BY <3>3 DEF GoodCookie, Unused
    <3> QED
        BY <1>2, <3>1, <3>2, <3>3
  <2> QED
      BY <2>1 DEF Begin
<1>3. ASSUME NEW r \in Requests, NoGoodCookie(r) \/ LoadMissing(r) \/ ServiceErr(r)
      PROVE  TypeOK'
    BY <1>3 DEF NoGoodCookie, LoadMissing, ServiceErr, local
<1>4. ASSUME NEW r \in Requests, Load(r) PROVE TypeOK'
    BY <1>4 DEF Load
<1>5. ASSUME NEW r \in Requests, Write(r) PROVE TypeOK'
    BY <1>5 DEF Write
<1>6. ASSUME NEW r \in Requests, ServiceOkClean(r) \/ ServiceOkDirty(r) PROVE TypeOK'
    BY <1>6 DEF ServiceOkClean, ServiceOkDirty, Respond, local
<1>7. ASSUME NEW r \in Requests, pc[r] = "saving", StoreSet(r)
      PROVE  /\ present' \in SUBSET Ids /\ saved' \in SUBSET Requests
             /\ store' \in [Ids -> SUBSET Requests]
    BY <1>7 DEF StoreSet
<1>8. ASSUME NEW r \in Requests, Save(r) PROVE TypeOK'
    BY <1>7, <1>8 DEF Save, Respond
<1>9. ASSUME NEW r \in Requests, StoreError(r) PROVE TypeOK'
    BY <1>7, <1>9 DEF StoreError, local
<1>10. ASSUME NEW r \in Requests, Cancel(r) PROVE TypeOK'
    BY <1>7, <1>10 DEF Cancel, local
<1> QED
    BY <1>1, <1>2, <1>3, <1>4, <1>5, <1>6, <1>8, <1>9, <1>10 DEF Next, Request, Finished

LEMMA SidStep ==
    ASSUME TypeOK, SidOK, RepliedOK, [Next]_vars
    PROVE  SidOK'
<1> USE DEF TypeOK, SidOK, RepliedOK, Goto, Fail
<1>1. ASSUME UNCHANGED vars PROVE SidOK'
    BY <1>1 DEF vars, local
<1>2. ASSUME NEW r \in Requests, NoCookie(r) \/ BrokenCookie(r) \/ GoodCookie(r)
      PROVE  SidOK'
    BY <1>2 DEF NoCookie, BrokenCookie, GoodCookie, Begin, Unused
<1>3. ASSUME NEW r \in Requests, NoGoodCookie(r) \/ LoadMissing(r) \/ ServiceErr(r)
      PROVE  SidOK'
    BY <1>3 DEF NoGoodCookie, LoadMissing, ServiceErr, local
<1>4. ASSUME NEW r \in Requests, Load(r) \/ Write(r) PROVE SidOK'
    BY <1>4 DEF Load, Write
<1>6. ASSUME NEW r \in Requests, ServiceOkClean(r) \/ ServiceOkDirty(r) PROVE SidOK'
    BY <1>6 DEF ServiceOkClean, ServiceOkDirty, Respond, local
<1>7. ASSUME NEW r \in Requests, Save(r) \/ StoreError(r) \/ Cancel(r) PROVE SidOK'
    BY <1>7 DEF Save, StoreError, Cancel, Respond, local
<1> QED
    BY <1>1, <1>2, <1>3, <1>4, <1>6, <1>7 DEF Next, Request, Finished

LEMMA DirtyStep ==
    ASSUME TypeOK, DataOK, SavedOK, DirtyOK, [Next]_vars
    PROVE  DirtyOK'
<1> USE DEF TypeOK, DirtyOK, Goto, Fail
<1>1. ASSUME UNCHANGED vars PROVE DirtyOK'
    BY <1>1 DEF vars, local
<1>2. ASSUME NEW r \in Requests, NoCookie(r) \/ BrokenCookie(r) \/ GoodCookie(r)
      PROVE  DirtyOK'
    BY <1>2 DEF NoCookie, BrokenCookie, GoodCookie, Begin
<1>3. ASSUME NEW r \in Requests, NoGoodCookie(r) \/ LoadMissing(r) \/ ServiceErr(r)
      PROVE  DirtyOK'
    BY <1>3 DEF NoGoodCookie, LoadMissing, ServiceErr, local
\* What is loaded has no write of the request yet: those it has are of requests
\* that are over.
<1>4. ASSUME NEW r \in Requests, Load(r) PROVE DirtyOK'
  <2>1. r \notin data'[r]
    <3>1. r \notin saved
        BY <1>4 DEF Load, SavedOK
    <3> QED
        BY <1>4, <3>1 DEF Load, DataOK
  <2> QED
      BY <1>4, <2>1 DEF Load
<1>5. ASSUME NEW r \in Requests, Write(r) PROVE DirtyOK'
    BY <1>5 DEF Write
<1>6. ASSUME NEW r \in Requests, ServiceOkClean(r) \/ ServiceOkDirty(r) PROVE DirtyOK'
    BY <1>6 DEF ServiceOkClean, ServiceOkDirty, Respond, local
<1>7. ASSUME NEW r \in Requests, Save(r) \/ StoreError(r) \/ Cancel(r) PROVE DirtyOK'
    BY <1>7 DEF Save, StoreError, Cancel, Respond, local
<1> QED
    BY <1>1, <1>2, <1>3, <1>4, <1>5, <1>6, <1>7 DEF Next, Request, Finished

LEMMA SavedStep ==
    ASSUME TypeOK, SidOK, SavedOK, [Next]_vars
    PROVE  SavedOK'
<1> USE DEF TypeOK, SavedOK, Goto, Fail
<1>1. ASSUME UNCHANGED vars PROVE SavedOK'
    BY <1>1 DEF vars, local
<1>2. ASSUME NEW r \in Requests, NoCookie(r) \/ BrokenCookie(r) \/ GoodCookie(r)
      PROVE  SavedOK'
    BY <1>2 DEF NoCookie, BrokenCookie, GoodCookie, Begin
<1>3. ASSUME NEW r \in Requests, NoGoodCookie(r) \/ LoadMissing(r) \/ ServiceErr(r)
      PROVE  SavedOK'
    BY <1>3 DEF NoGoodCookie, LoadMissing, ServiceErr, local
<1>4. ASSUME NEW r \in Requests, Load(r) \/ Write(r) PROVE SavedOK'
    BY <1>4 DEF Load, Write
<1>6. ASSUME NEW r \in Requests, ServiceOkClean(r) \/ ServiceOkDirty(r) PROVE SavedOK'
    BY <1>6 DEF ServiceOkClean, ServiceOkDirty, Respond, local
<1>7. ASSUME NEW r \in Requests, Save(r) \/ StoreError(r) \/ Cancel(r) PROVE SavedOK'
    BY <1>7 DEF Save, StoreError, Cancel, StoreSet, Respond, local
<1> QED
    BY <1>1, <1>2, <1>3, <1>4, <1>6, <1>7 DEF Next, Request, Finished

LEMMA DataStep ==
    ASSUME TypeOK, SidOK, SavedOK, DataOK, [Next]_vars
    PROVE  DataOK'
<1> USE DEF TypeOK, DataOK, Goto, Fail
<1>1. ASSUME UNCHANGED vars PROVE DataOK'
    BY <1>1 DEF vars, local
<1>2. ASSUME NEW r \in Requests, NoCookie(r) \/ BrokenCookie(r) \/ GoodCookie(r)
      PROVE  DataOK'
    BY <1>2 DEF NoCookie, BrokenCookie, GoodCookie, Begin
<1>3. ASSUME NEW r \in Requests, NoGoodCookie(r) \/ LoadMissing(r) \/ ServiceErr(r)
      PROVE  DataOK'
    BY <1>3 DEF NoGoodCookie, LoadMissing, ServiceErr, local
<1>4. ASSUME NEW r \in Requests, Load(r) PROVE DataOK'
    BY <1>4 DEF Load, SidOK
<1>5. ASSUME NEW r \in Requests, Write(r) PROVE DataOK'
    BY <1>5 DEF Write
<1>6. ASSUME NEW r \in Requests, ServiceOkClean(r) \/ ServiceOkDirty(r) PROVE DataOK'
    BY <1>6 DEF ServiceOkClean, ServiceOkDirty, Respond, local
<1>7. ASSUME NEW r \in Requests, Save(r) \/ StoreError(r) \/ Cancel(r) PROVE DataOK'
    BY <1>7 DEF Save, StoreError, Cancel, StoreSet, Respond, local
<1> QED
    BY <1>1, <1>2, <1>3, <1>4, <1>5, <1>6, <1>7 DEF Next, Request, Finished

LEMMA RepliedStep ==
    ASSUME TypeOK, DirtyOK, RepliedOK, [Next]_vars
    PROVE  RepliedOK'
<1> USE DEF TypeOK, RepliedOK, Goto, Fail
<1>1. ASSUME UNCHANGED vars PROVE RepliedOK'
    BY <1>1 DEF vars, local
<1>2. ASSUME NEW r \in Requests, NoCookie(r) \/ BrokenCookie(r) \/ GoodCookie(r)
      PROVE  RepliedOK'
    BY <1>2 DEF NoCookie, BrokenCookie, GoodCookie, Begin
<1>3. ASSUME NEW r \in Requests, NoGoodCookie(r) \/ LoadMissing(r) \/ ServiceErr(r)
      PROVE  RepliedOK'
    BY <1>3 DEF NoGoodCookie, LoadMissing, ServiceErr, local
<1>4. ASSUME NEW r \in Requests, Load(r) \/ Write(r) PROVE RepliedOK'
    BY <1>4 DEF Load, Write
<1>6. ASSUME NEW r \in Requests, ServiceOkClean(r) \/ ServiceOkDirty(r) PROVE RepliedOK'
    BY <1>6 DEF ServiceOkClean, ServiceOkDirty, Respond, local, DirtyOK
<1>7. ASSUME NEW r \in Requests, Save(r) \/ StoreError(r) \/ Cancel(r) PROVE RepliedOK'
    BY <1>7 DEF Save, StoreError, Cancel, StoreSet, Respond, local
<1> QED
    BY <1>1, <1>2, <1>3, <1>4, <1>6, <1>7 DEF Next, Request, Finished

LEMMA RequiredStep ==
    ASSUME TypeOK, RequiredOK, [Next]_vars
    PROVE  RequiredOK'
<1> USE DEF TypeOK, RequiredOK, Goto, Fail
<1>1. ASSUME UNCHANGED vars PROVE RequiredOK'
    BY <1>1 DEF vars, local
<1>2. ASSUME NEW r \in Requests, NoCookie(r) \/ BrokenCookie(r) \/ GoodCookie(r)
      PROVE  RequiredOK'
    BY <1>2 DEF NoCookie, BrokenCookie, GoodCookie, Begin
<1>3. ASSUME NEW r \in Requests, NoGoodCookie(r) \/ LoadMissing(r) \/ ServiceErr(r)
      PROVE  RequiredOK'
    BY <1>3 DEF NoGoodCookie, LoadMissing, ServiceErr, local
<1>4. ASSUME NEW r \in Requests, Load(r) \/ Write(r) PROVE RequiredOK'
    BY <1>4 DEF Load, Write
<1>6. ASSUME NEW r \in Requests, ServiceOkClean(r) \/ ServiceOkDirty(r) PROVE RequiredOK'
    BY <1>6 DEF ServiceOkClean, ServiceOkDirty, Respond, local
<1>7. ASSUME NEW r \in Requests, Save(r) \/ StoreError(r) \/ Cancel(r) PROVE RequiredOK'
    BY <1>7 DEF Save, StoreError, Cancel, StoreSet, Respond, local
<1> QED
    BY <1>1, <1>2, <1>3, <1>4, <1>6, <1>7 DEF Next, Request, Finished

-------------------------------------------------------------------------------
(* A write on record is kept until it is overtaken. *)

\* What a request on record had loaded and written stays on record.
LEMMA RecordKept ==
    ASSUME TypeOK, SavedOK, [Next]_vars
    PROVE  /\ saved \subseteq saved'
           /\ \A r \in saved :
                sid'[r] = sid[r] /\ data'[r] = data[r] /\ base'[r] = base[r]
<1> USE DEF TypeOK, SavedOK, Goto, Fail
<1> DEFINE Kept == /\ saved \subseteq saved'
                   /\ \A r \in saved :
                        sid'[r] = sid[r] /\ data'[r] = data[r] /\ base'[r] = base[r]
<1>1. ASSUME UNCHANGED vars PROVE Kept
    BY <1>1 DEF vars, local
<1>2. ASSUME NEW r \in Requests, NoCookie(r) \/ BrokenCookie(r) \/ GoodCookie(r)
      PROVE  Kept
    BY <1>2 DEF NoCookie, BrokenCookie, GoodCookie, Begin
<1>3. ASSUME NEW r \in Requests, NoGoodCookie(r) \/ LoadMissing(r) \/ ServiceErr(r)
      PROVE  Kept
    BY <1>3 DEF NoGoodCookie, LoadMissing, ServiceErr, local
<1>4. ASSUME NEW r \in Requests, Load(r) \/ Write(r) PROVE Kept
    BY <1>4 DEF Load, Write
<1>6. ASSUME NEW r \in Requests, ServiceOkClean(r) \/ ServiceOkDirty(r) PROVE Kept
    BY <1>6 DEF ServiceOkClean, ServiceOkDirty, Respond, local
<1>7. ASSUME NEW r \in Requests, Save(r) \/ StoreError(r) \/ Cancel(r) PROVE Kept
    BY <1>7 DEF Save, StoreError, Cancel, StoreSet, Respond, local
<1> QED
    BY <1>1, <1>2, <1>3, <1>4, <1>6, <1>7 DEF Next, Request, Finished

LEMMA OvertakenKept ==
    ASSUME TypeOK, SavedOK, [Next]_vars, NEW r \in saved, Overtaken(r)
    PROVE  Overtaken(r)'
<1>1. PICK q \in saved \ {r} : sid[q] = sid[r] /\ r \notin base[q]
    BY DEF Overtaken
<1>2. q \in saved' \ {r} /\ sid'[q] = sid'[r] /\ r \notin base'[q]
    BY <1>1, RecordKept
<1> QED
    BY <1>2 DEF Overtaken

\* What one step does to the store and to the loads: a request begins with nothing
\* loaded, loads, writes, or replaces the stored value by its own.
LEMMA ValueChange ==
    ASSUME TypeOK, SidOK, DataOK, [Next]_vars
    PROVE  \/ /\ UNCHANGED <<present, store, saved>>
              /\ \A q \in Requests :
                   \/ sid'[q] = sid[q] /\ base'[q] = base[q] /\ data[q] \subseteq data'[q]
                   \/ base'[q] = {}
                   \/ pc[q] = "loading" /\ Load(q)
           \/ \E r \in Requests : pc[r] = "saving" /\ StoreSet(r)
                                  /\ UNCHANGED <<sid, data, base>>
<1> USE DEF TypeOK, Goto, Fail
<1> DEFINE Change ==
              \/ /\ UNCHANGED <<present, store, saved>>
                 /\ \A q \in Requests :
                      \/ sid'[q] = sid[q] /\ base'[q] = base[q] /\ data[q] \subseteq data'[q]
                      \/ base'[q] = {}
                      \/ pc[q] = "loading" /\ Load(q)
              \/ \E r \in Requests : pc[r] = "saving" /\ StoreSet(r)
                                     /\ UNCHANGED <<sid, data, base>>
<1>1. ASSUME UNCHANGED vars PROVE Change
    BY <1>1 DEF vars, local
<1>2. ASSUME NEW r \in Requests, NoCookie(r) \/ BrokenCookie(r) \/ GoodCookie(r)
      PROVE  Change
    BY <1>2 DEF NoCookie, BrokenCookie, GoodCookie, Begin, DataOK
<1>3. ASSUME NEW r \in Requests, NoGoodCookie(r) \/ LoadMissing(r) \/ ServiceErr(r)
      PROVE  Change
    BY <1>3 DEF NoGoodCookie, LoadMissing, ServiceErr, local
<1>4. ASSUME NEW r \in Requests, Load(r) PROVE Change
    BY <1>4 DEF Load
<1>5. ASSUME NEW r \in Requests, Write(r) PROVE Change
    BY <1>5 DEF Write
<1>6. ASSUME NEW r \in Requests, ServiceOkClean(r) \/ ServiceOkDirty(r) PROVE Change
    BY <1>6 DEF ServiceOkClean, ServiceOkDirty, Respond, local
<1>7. ASSUME NEW r \in Requests, Save(r) \/ StoreError(r) \/ Cancel(r) PROVE Change
    BY <1>7 DEF Save, StoreError, Cancel, Respond, local
<1> QED
    BY <1>1, <1>2, <1>3, <1>4, <1>5, <1>6, <1>7 DEF Next, Request, Finished

LEMMA KeptStep ==
    ASSUME TypeOK, SidOK, SavedOK, DataOK, KeptOK, [Next]_vars
    PROVE  KeptOK'
<1>1. ASSUME NEW r \in saved, r \in data[r],
             UNCHANGED <<present, store, saved>>
      PROVE  r \in store'[sid'[r]] \/ Overtaken(r)'
    BY <1>1, RecordKept, OvertakenKept DEF KeptOK
<1>2. ASSUME NEW r \in saved, r \in data[r], NEW q \in Requests,
             UNCHANGED <<present, store, saved>>, sid'[q] = sid'[r], r \in base'[q]
      PROVE  r \in data'[q] \/ Overtaken(r)'
  <2>1. sid'[r] = sid[r] /\ r \in Requests
      BY RecordKept DEF TypeOK
  <2>2. CASE sid'[q] = sid[q] /\ base'[q] = base[q] /\ data[q] \subseteq data'[q]
      BY <1>2, <2>1, <2>2, OvertakenKept DEF KeptOK
  <2>3. CASE Load(q)
    <3>1. sid[q] = sid[r] /\ sid[r] \in present
        BY <1>2, <2>1, <2>3 DEF Load, SavedOK
    <3>2. data'[q] = store[sid[r]]
        BY <2>3, <3>1 DEF Load, TypeOK
    <3> QED
        BY <1>2, <3>2, OvertakenKept DEF KeptOK
  <2> QED
      BY <1>2, <2>2, <2>3, ValueChange DEF StoreSet, DataOK, TypeOK
<1>3. ASSUME NEW r \in saved, r \in data[r],
             NEW p \in Requests, pc[p] = "saving", StoreSet(p), UNCHANGED <<sid, data, base>>
      PROVE  /\ r \in store'[sid[r]] \/ Overtaken(r)'
             /\ \A q \in Requests :
                  sid[q] = sid[r] /\ r \in base[q] => r \in data[q] \/ Overtaken(r)'
  <2>1. \A q \in Requests :
          sid[q] = sid[r] /\ r \in base[q] => r \in data[q] \/ Overtaken(r)'
      BY <1>3, OvertakenKept DEF KeptOK
  <2>2. CASE sid[p] # sid[r]
      BY <1>3, <2>2, OvertakenKept DEF KeptOK, StoreSet, TypeOK
  <2>3. CASE sid[p] = sid[r]
    <3>1. p # r /\ p \in saved' /\ sid'[p] = sid'[r]
        BY <1>3, <2>3 DEF SavedOK, StoreSet
    <3>2. r \notin base[p] => Overtaken(r)'
        BY <1>3, <3>1 DEF Overtaken
    <3>3. store'[sid[r]] = data[p]
        BY <1>3, <2>3 DEF StoreSet, TypeOK, SidOK
    <3> QED
        BY <2>1, <2>3, <3>2, <3>3
  <2> QED
      BY <2>1, <2>2, <2>3
\* A write that has just been saved is in the store, and nobody has loaded it.
<1>4. ASSUME NEW p \in Requests, pc[p] = "saving", StoreSet(p), p \in data[p]
      PROVE  p \in store'[sid[p]] /\ \A q \in Requests : p \notin base[q]
    BY <1>4 DEF StoreSet, TypeOK, SidOK, SavedOK, DataOK
<1>5. CASE UNCHANGED <<present, store, saved>>
    BY <1>1, <1>2, <1>5, RecordKept DEF KeptOK
<1>6. ASSUME NEW p \in Requests, pc[p] = "saving", StoreSet(p), UNCHANGED <<sid, data, base>>
      PROVE  KeptOK'
  <2>1. saved' = saved \cup {p}
      BY <1>6 DEF StoreSet
  <2> QED
      BY <1>3, <1>4, <1>6, <2>1 DEF KeptOK
<1> QED
    BY <1>5, <1>6, ValueChange

-------------------------------------------------------------------------------

LEMMA InitHolds == Init => IInv
    BY SessionAssumption
    DEF Init, IInv, TypeOK, SidOK, SavedOK, DataOK, DirtyOK, RepliedOK, KeptOK, RequiredOK

LEMMA StepHolds == IInv /\ [Next]_vars => IInv'
    BY TypeStep, SidStep, SavedStep, DataStep, DirtyStep, RepliedStep, KeptStep,
       RequiredStep
    DEF IInv

LEMMA Invariance == Spec => []IInv
    BY InitHolds, StepHolds, PTL DEF Spec

-------------------------------------------------------------------------------
(* The theorems *)

\* Every variable keeps its type.
THEOREM TypeCorrect == Spec => []TypeOK
<1>1. IInv => TypeOK
    BY DEF IInv
<1> QED
    BY <1>1, Invariance, PTL

\* For every set of requests and sessions: an answered write is lost only to one
\* that loaded the session before that write was saved.
THEOREM LostOnlyByOverlap == Spec => []LostUpdateNeedsOverlap
<1>1. IInv => LostUpdateNeedsOverlap
    BY DEF IInv, RepliedOK, KeptOK, Overtaken, LostUpdateNeedsOverlap
<1> QED
    BY <1>1, Invariance, PTL

\* For every set of requests and sessions: no client gets the cookie of a session
\* begun for want of one, and no handler runs behind RequiredSession, without the
\* session in the store.
THEOREM ToldOfStored == Spec => []SessionsToldOfAreStored
<1>1. IInv => SessionsToldOfAreStored
    BY DEF IInv, SavedOK, RepliedOK, RequiredOK, SessionsToldOfAreStored
<1> QED
    BY <1>1, Invariance, PTL
===============================================================================
