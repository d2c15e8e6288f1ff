-------------------------- MODULE PocAlertsProofs --------------------------
(***************************************************************************)
(* Proofs about PocAlerts for any hotels, POCs, cap, cool-down, week,      *)
(* number of retries, length of time and number of interleaved runs.       *)
(***************************************************************************)
EXTENDS PocAlerts, FiniteSetTheorems, FunctionTheorems, WellFoundedInduction, TLAPS

USE TimeAssumption

\* A run alerts hotels of the bottom tier, which its ranking orders, and none
\* before it has classified them.
Ranked ==
  \A r \in Runs : /\ seen[r].rank \in Rankings(seen[r].bottom)
                  /\ alert[r] \subseteq seen[r].bottom
                  /\ pc[r] = "load" => alert[r] = {}

\* Types, with what the ranking and numbering of a POC's digests need.
TInv == TypeOK /\ IsFiniteSet(requested) /\ Ranked

-----------------------------------------------------------------------------
(* Types.                                                                  *)

\* Advancing and retrying keep the steps of the runs.
LEMMA PcType ==
  ASSUME TypeOK, NEW r \in Runs,
         NEW to \in {"idle", "load", "diff", "write", "emit", "report"},
         Advance(r, to) \/ Retry(r)
  PROVE  /\ pc' \in [Runs -> {"idle", "load", "diff", "write", "emit", "report"}]
         /\ attempts' \in [Runs -> 0..MaxRetries]
<1>0. /\ pc \in [Runs -> {"idle", "load", "diff", "write", "emit", "report"}]
      /\ attempts \in [Runs -> 0..MaxRetries] /\ 0 \in 0..MaxRetries
  BY DEF TypeOK
<1>1. Advance(r, to) \/ Advance(r, "idle") \/
        /\ attempts[r] < MaxRetries /\ UNCHANGED pc
        /\ attempts' = [attempts EXCEPT ![r] = @ + 1]
  BY DEF Retry
<1>2. CASE Advance(r, to) \/ Advance(r, "idle")
  BY <1>0, <1>2 DEF Advance
<1>3. CASE /\ attempts[r] < MaxRetries /\ UNCHANGED pc
           /\ attempts' = [attempts EXCEPT ![r] = @ + 1]
  <2>1. attempts[r] \in 0..MaxRetries
    BY DEF TypeOK
  <2>2. attempts[r] + 1 \in 0..MaxRetries
    BY <1>3, <2>1
  <2> QED
    BY <1>0, <1>3, <2>2
<1> QED
  BY <1>1, <1>2, <1>3

\* The week of a moment within the bound.
LEMMA WeekType ==
  ASSUME NEW t \in 0..MaxNow
  PROVE  Week(t) \in 0..Week(MaxNow)
<1>1. t \in Nat /\ MaxNow \in Nat /\ t <= MaxNow
  OBVIOUS
<1>2. WeekLen \in Nat \ {0}
  OBVIOUS
<1> QED
  BY <1>1, <1>2, SMTT(30) DEF Week

\* The hotels of a group are finitely many.
LEMMA GroupFinite ==
  ASSUME TInv, NEW r \in Runs, NEW p
  PROVE  Group(r, p) \in SUBSET Hotels /\ IsFiniteSet(Group(r, p))
<1>1. Group(r, p) \in SUBSET Hotels
  BY DEF Group, TInv, TypeOK
<1> QED
  BY <1>1, HotelAssumption, FS_Subset

\* The digest of a group names somebody: at least the worst of it.
LEMMA NamedSome ==
  ASSUME TInv, NEW r \in Runs, NEW p, Group(r, p) # {}
  PROVE  Named(r, p) # {}
<1> DEFINE rank == seen[r].rank
           Is(n) == \E h \in Group(r, p) : rank[h] = n
           N == {n \in Nat : Is(n)}
<1>1. \A h \in Group(r, p) : rank[h] \in Nat
  <2>1. Group(r, p) \subseteq seen[r].bottom /\ rank \in Rankings(seen[r].bottom)
    BY DEF Group, TInv, Ranked
  <2> QED
    BY <2>1 DEF Rankings
<1>2. N # {} /\ N \subseteq Nat
  BY <1>1
<1>3. PICK n \in N : \A m \in N : ~(m < n)
  <2>1. PICK n \in N : \A m \in N : ~(<<m, n>> \in OpToRel(<, Nat))
    <3> HIDE DEF N
    <3> QED
      BY <1>2, NatLessThanWellFounded, WFMin
  <2> QED
    BY <2>1 DEF OpToRel
<1>4. PICK h \in Group(r, p) : rank[h] = n
  OBVIOUS
<1>5. {g \in Group(r, p) : rank[g] < rank[h]} = {}
  BY <1>1, <1>3, <1>4
<1> QED
  BY <1>5, FS_EmptySet DEF Named

\* The digests of a run are finitely many: each has an alerted hotel.
LEMMA FiniteDigests ==
  ASSUME TInv, NEW r \in Runs
  PROVE  IsFiniteSet(Digests(r))
<1> DEFINE A == {h \in alert[r] : seen[r].poc[h] \in users}
           D(p) == [poc |-> p, week |-> Week(stamp[r]), hotels |-> Named(r, p),
                    more |-> More(r, p), n |-> Sent(p) + 1]
           f == [h \in A |-> D(seen[r].poc[h])]
<1>1. IsFiniteSet(A)
  <2>1. A \in SUBSET Hotels
    BY DEF TInv, TypeOK
  <2> QED
    BY <2>1, HotelAssumption, FS_Subset
<1>2. \A e \in Digests(r) : \E h \in A : f[h] = e
  <2> TAKE e \in Digests(r)
  <2>0. PICK p \in users : Group(r, p) # {} /\ e = D(p)
    BY DEF Digests
  <2>1. PICK h \in Group(r, p) : TRUE
    BY <2>0
  <2>2. h \in A /\ seen[r].poc[h] = p
    BY <2>1 DEF Group
  <2>3. f[h] = D(seen[r].poc[h])
    BY <2>2
  <2> QED
    BY <2>0, <2>2, <2>3
<1>3. \A h \in A : f[h] \in Digests(r)
  <2> SUFFICES ASSUME NEW h \in A PROVE D(seen[r].poc[h]) \in Digests(r)
    OBVIOUS
  <2>1. Group(r, seen[r].poc[h]) # {}
    BY DEF Group
  <2> QED
    BY <2>1 DEF Digests
<1>4. f \in Surjection(A, Digests(r))
  <2>1. f \in [A -> Digests(r)]
    BY <1>3
  <2> HIDE DEF f, A
  <2> QED
    BY <1>2, <2>1 DEF Surjection
<1> HIDE DEF f, A
<1> QED
  BY <1>1, <1>4, FS_Surjection

\* A digest within the bound is one of the events.
LEMMA DigestType ==
  ASSUME TInv, NEW r \in Runs, NEW e \in Digests(r), e.n <= MaxMails
  PROVE  e \in Digest
<1>1. PICK p \in users :
        /\ Group(r, p) # {}
        /\ e = [poc |-> p, week |-> Week(stamp[r]), hotels |-> Named(r, p),
                more |-> More(r, p), n |-> Sent(p) + 1]
  BY DEF Digests
<1>2. Sent(p) \in Nat
  <2>1. IsFiniteSet({d \in requested : d.poc = p})
    BY FS_Subset DEF TInv
  <2> QED
    BY <2>1, FS_CardinalityType DEF Sent
<1>3. Week(stamp[r]) \in 0..Week(MaxNow)
  BY WeekType DEF TInv, TypeOK
<1>4. Named(r, p) \in (SUBSET Hotels) \ {{}}
  BY <1>1, NamedSome, GroupFinite DEF Named
<1>5. More(r, p) \in 0..Cardinality(Hotels)
  <2>1. /\ Cardinality(Group(r, p)) \in Nat /\ Cardinality(Hotels) \in Nat
        /\ Cardinality(Group(r, p)) <= Cardinality(Hotels)
    BY HotelAssumption, GroupFinite, FS_Subset, FS_CardinalityType
  <2> QED
    BY <2>1 DEF More
<1>6. p \in Pocs
  BY DEF TInv, TypeOK
<1> QED
  BY <1>1, <1>2, <1>3, <1>4, <1>5, <1>6 DEF Digest

\* What a run may have seen.
Seen == [elig : SUBSET Hotels, bottom : SUBSET Hotels,
         rank : UNION {Rankings(bottom) : bottom \in SUBSET Hotels},
         poc : [Hotels -> Pocs \cup {NoPoc}]]

LEMMA UnseenType == Unseen \in Seen /\ Unseen.bottom = {} /\ Unseen.rank \in Rankings({})
<1>1. [h \in {} |-> 0] \in Rankings({})
  BY DEF Rankings
<1> QED
  BY <1>1 DEF Unseen, Seen

\* A step keeps the types.
LEMMA TypeStep ==
  ASSUME TInv, [Next]_vars
  PROVE  TypeOK' /\ IsFiniteSet(requested')
<1> USE DEF TInv
<1>1. ASSUME NEW r \in Runs, Trigger(r) PROVE TypeOK' /\ IsFiniteSet(requested')
  <2>1. seen' \in [Runs -> Seen]
    BY <1>1, UnseenType DEF Trigger, TypeOK, Seen
  <2>2. /\ pc' \in [Runs -> {"idle", "load", "diff", "write", "emit", "report"}]
        /\ attempts' \in [Runs -> 0..MaxRetries]
    BY <1>1, PcType DEF Trigger
  <2>3. prior' \in [Runs -> [Hotels -> 0..MaxNow]]
    BY <1>1 DEF Trigger, TypeOK, Never
  <2> QED
    BY <1>1, <2>1, <2>2, <2>3 DEF Trigger, TypeOK, history, Seen
<1>2. ASSUME NEW r \in Runs, LoadConfig(r) PROVE TypeOK' /\ IsFiniteSet(requested')
  <2>1. /\ pc' \in [Runs -> {"idle", "load", "diff", "write", "emit", "report"}]
        /\ attempts' \in [Runs -> 0..MaxRetries]
    BY <1>2, PcType DEF LoadConfig
  <2>2. seen' \in [Runs -> Seen]
    <3>1. CASE UNCHANGED seen
      BY <3>1 DEF TypeOK, Seen
    <3>2. CASE \E elig \in SUBSET Hotels : \E bottom \in SUBSET elig :
               \E rank \in Rankings(bottom) :
                 seen' = [seen EXCEPT ![r] = [elig |-> elig, bottom |-> bottom,
                                              rank |-> rank, poc |-> poc]]
      <4>1. PICK elig \in SUBSET Hotels : \E bottom \in SUBSET elig :
                 \E rank \in Rankings(bottom) :
                   seen' = [seen EXCEPT ![r] = [elig |-> elig, bottom |-> bottom,
                                                rank |-> rank, poc |-> poc]]
        BY <3>2
      <4>2. PICK bottom \in SUBSET elig : \E rank \in Rankings(bottom) :
                   seen' = [seen EXCEPT ![r] = [elig |-> elig, bottom |-> bottom,
                                                rank |-> rank, poc |-> poc]]
        BY <4>1
      <4>3. PICK rank \in Rankings(bottom) :
                   seen' = [seen EXCEPT ![r] = [elig |-> elig, bottom |-> bottom,
                                                rank |-> rank, poc |-> poc]]
        BY <4>2
      <4>4. [elig |-> elig, bottom |-> bottom, rank |-> rank, poc |-> poc] \in Seen
        BY DEF TypeOK, Seen
      <4> QED
        BY <4>3, <4>4 DEF TypeOK, Seen
    <3> QED
      BY <1>2, <3>1, <3>2 DEF LoadConfig
  <2> QED
    BY <1>2, <2>1, <2>2 DEF LoadConfig, TypeOK, history, Seen
<1>3. ASSUME NEW r \in Runs, DiffState(r) PROVE TypeOK' /\ IsFiniteSet(requested')
  <2>1. /\ pc' \in [Runs -> {"idle", "load", "diff", "write", "emit", "report"}]
        /\ attempts' \in [Runs -> 0..MaxRetries]
    BY <1>3, PcType DEF DiffState
  <2>2. \A h \in Hotels : state[h].alerted \in 0..MaxNow
    BY DEF TypeOK, Row
  <2>3. seen[r].elig \subseteq Hotels
    BY DEF TypeOK
  <2>4. alert' \in [Runs -> SUBSET Hotels] /\ prior' \in [Runs -> [Hotels -> 0..MaxNow]]
    <3> DEFINE F == IF FirstRun(seen[r].elig) THEN {}
                    ELSE {h \in seen[r].elig :
                            Decide(state[h], h \in seen[r].bottom, now)}
               G == [h \in Hotels |-> state[h].alerted]
    <3>1. F \in SUBSET Hotels /\ G \in [Hotels -> 0..MaxNow]
      BY <2>2, <2>3
    <3>2. \/ alert' = [alert EXCEPT ![r] = F] /\ prior' = [prior EXCEPT ![r] = G]
          \/ UNCHANGED <<alert, prior>>
      BY <1>3 DEF DiffState
    <3>3. alert \in [Runs -> SUBSET Hotels] /\ prior \in [Runs -> [Hotels -> 0..MaxNow]]
      BY DEF TypeOK
    <3> HIDE DEF F, G
    <3>4. alert' \in [Runs -> SUBSET Hotels]
      BY <3>1, <3>2, <3>3
    <3>5. prior' \in [Runs -> [Hotels -> 0..MaxNow]]
      BY <3>1, <3>2, <3>3
    <3> QED
      BY <3>4, <3>5
  <2> QED
    BY <1>3, <2>1, <2>4 DEF DiffState, TypeOK, history
<1>4. ASSUME NEW r \in Runs, WriteState(r) PROVE TypeOK' /\ IsFiniteSet(requested')
  <2>1. /\ pc' \in [Runs -> {"idle", "load", "diff", "write", "emit", "report"}]
        /\ attempts' \in [Runs -> 0..MaxRetries]
    BY <1>4, PcType DEF WriteState
  <2>2. \A h \in Hotels : Upserted(r, h) \in Row
    BY DEF Upserted, Row, TypeOK
  <2>3. PICK written \in SUBSET seen[r].elig :
          /\ state' = [h \in Hotels |->
                         IF h \in written THEN Upserted(r, h) ELSE state[h]]
          /\ recovered' = recovered \cup (written \ seen[r].bottom)
          /\ stamp' = [stamp EXCEPT ![r] = now] \/ UNCHANGED stamp
    BY <1>4 DEF WriteState, Storable
  <2>4. state' \in [Hotels -> Row]
    <3>1. \A h \in Hotels : state[h] \in Row
      BY DEF TypeOK
    <3> QED
      BY <2>2, <2>3, <3>1
  <2>5. seen[r].elig \subseteq Hotels
    BY DEF TypeOK
  <2>6. recovered' \subseteq Hotels
    BY <2>3, <2>5 DEF TypeOK
  <2>7. stamp' \in [Runs -> 0..MaxNow]
    <3>1. stamp \in [Runs -> 0..MaxNow] /\ now \in 0..MaxNow
      BY DEF TypeOK
    <3> QED
      BY <2>3, <3>1
  <2> QED
    BY <1>4, <2>1, <2>4, <2>6, <2>7 DEF WriteState, TypeOK
<1>5. ASSUME NEW r \in Runs, EmitPocEmails(r) PROVE TypeOK' /\ IsFiniteSet(requested')
  <2>1. /\ pc' \in [Runs -> {"idle", "load", "diff", "write", "emit", "report"}]
        /\ attempts' \in [Runs -> 0..MaxRetries]
    BY <1>5, PcType DEF EmitPocEmails
  <2>2. requested' \subseteq Digest /\ IsFiniteSet(requested')
    <3>1. CASE UNCHANGED requested
      BY <3>1 DEF TypeOK
    <3>2. CASE /\ \A e \in Digests(r) : e.n <= MaxMails
               /\ requested' = requested \cup Digests(r)
      BY <3>2, DigestType, FiniteDigests, FS_Union DEF TypeOK
    <3> QED
      BY <1>5, <3>1, <3>2 DEF EmitPocEmails
  <2>3. lastMail' \in [Hotels -> 0..MaxNow] /\ recovered' \subseteq Hotels
    BY <1>5 DEF EmitPocEmails, TypeOK, history
  <2> QED
    BY <1>5, <2>1, <2>2, <2>3 DEF EmitPocEmails, TypeOK
<1>6. ASSUME NEW r \in Runs, Report(r) PROVE TypeOK' /\ IsFiniteSet(requested')
  <2>1. /\ pc' \in [Runs -> {"idle", "load", "diff", "write", "emit", "report"}]
        /\ attempts' \in [Runs -> 0..MaxRetries]
    BY <1>6, PcType DEF Report
  <2> QED
    BY <1>6, <2>1 DEF Report, TypeOK, history
<1>7. CASE Tick
  BY <1>7 DEF Tick, TypeOK, runVars, history
<1>8. ASSUME NEW h \in Hotels, NEW p \in users \cup {NoPoc}, AssignPoc(h, p) PROVE TypeOK' /\ IsFiniteSet(requested')
  BY <1>8 DEF AssignPoc, TypeOK, runVars, history
<1>10. ASSUME NEW p \in users, DeleteUser(p) PROVE TypeOK' /\ IsFiniteSet(requested')
  <2>1. users' \subseteq Pocs /\ poc' \in [Hotels -> users' \cup {NoPoc}]
    BY <1>10 DEF DeleteUser, TypeOK
  <2> QED
    BY <1>10, <2>1 DEF DeleteUser, TypeOK, runVars, history
<1>9. CASE UNCHANGED vars
  BY <1>9 DEF vars, TypeOK
<1> QED
  BY <1>1, <1>2, <1>3, <1>4, <1>5, <1>6, <1>7, <1>8, <1>9, <1>10 DEF Next, RunStep

\* Only diff-state chooses whom to alert, among the hotels classified before.
LEMMA RankedStep ==
  ASSUME TInv, [Next]_vars
  PROVE  Ranked'
<1> SUFFICES ASSUME NEW r \in Runs
             PROVE  /\ seen'[r].rank \in Rankings(seen'[r].bottom)
                    /\ alert'[r] \subseteq seen'[r].bottom
                    /\ pc'[r] = "load" => alert'[r] = {}
  BY DEF Ranked, Rankings
<1>0. /\ seen[r].rank \in Rankings(seen[r].bottom) /\ alert[r] \subseteq seen[r].bottom
      /\ pc[r] = "load" => alert[r] = {}
  BY DEF TInv, Ranked
<1>1. CASE Trigger(r)
  <2>1. seen'[r] = Unseen /\ alert'[r] = {}
    BY <1>1 DEF Trigger, TInv, TypeOK
  <2> QED
    BY <2>1, UnseenType
<1>2. CASE LoadConfig(r)
  <2>1. UNCHANGED alert /\ alert[r] = {}
    BY <1>0, <1>2 DEF LoadConfig
  <2>2. seen'[r].rank \in Rankings(seen'[r].bottom)
    <3>1. CASE UNCHANGED seen
      BY <1>0, <3>1
    <3>2. CASE ~UNCHANGED seen
      <4>1. PICK elig \in SUBSET Hotels : \E bottom \in SUBSET elig :
                 \E rank \in Rankings(bottom) :
                   seen' = [seen EXCEPT ![r] = [elig |-> elig, bottom |-> bottom,
                                                rank |-> rank, poc |-> poc]]
        BY <1>2, <3>2 DEF LoadConfig
      <4>2. PICK bottom \in SUBSET elig : \E rank \in Rankings(bottom) :
                   seen' = [seen EXCEPT ![r] = [elig |-> elig, bottom |-> bottom,
                                                rank |-> rank, poc |-> poc]]
        BY <4>1
      <4>3. PICK rank \in Rankings(bottom) :
                   seen' = [seen EXCEPT ![r] = [elig |-> elig, bottom |-> bottom,
                                                rank |-> rank, poc |-> poc]]
        BY <4>2
      <4>4. seen'[r] = [elig |-> elig, bottom |-> bottom, rank |-> rank, poc |-> poc]
        BY <4>3 DEF TInv, TypeOK
      <4> QED
        BY <4>4
    <3> QED
      BY <3>1, <3>2
  <2> QED
    BY <2>1, <2>2
<1>3. CASE DiffState(r)
  <2>1. UNCHANGED seen /\ pc'[r] # "load"
    BY <1>3 DEF DiffState, Advance, Retry, TInv, TypeOK
  <2>2. alert'[r] \subseteq seen[r].bottom
    BY <1>0, <1>3 DEF DiffState, Decide, TInv, TypeOK
  <2> QED
    BY <1>0, <2>1, <2>2
<1>4. CASE ~Trigger(r) /\ ~LoadConfig(r) /\ ~DiffState(r)
  <2>1. seen'[r] = seen[r] /\ alert'[r] = alert[r]
    BY <1>4 DEF Next, RunStep, Trigger, LoadConfig, DiffState, WriteState,
       EmitPocEmails, Report, Tick, AssignPoc, DeleteUser, vars, runVars, TInv, TypeOK
  <2>2. pc'[r] = "load" => pc[r] = "load"
    BY <1>4 DEF Next, RunStep, Trigger, LoadConfig, DiffState, WriteState,
       EmitPocEmails, Report, Tick, AssignPoc, DeleteUser, vars, runVars,
       Advance, Retry, TInv, TypeOK
  <2> QED
    BY <1>0, <2>1, <2>2
<1> QED
  BY <1>1, <1>2, <1>3, <1>4

-----------------------------------------------------------------------------
(* The digests a run has sent.                                             *)

\* Whatever other runs do, the digests of a run stay, and it moves on to report
\* only with all of them sent.
LEMMA NamedStep ==
  ASSUME TInv, NobodyForgotten, [Next]_vars
  PROVE  NobodyForgotten'
<1> SUFFICES ASSUME NEW r \in Runs, pc'[r] = "report",
                    NEW h \in alert'[r], seen'[r].poc[h] \in users'
             PROVE  \E e \in requested' :
                      /\ Tells(e, r, h)' /\ e.poc = seen'[r].poc[h]
                      /\ e.week = Week(stamp'[r])
  BY DEF NobodyForgotten, Week, Tells
<1>0. users' \subseteq users
  BY DEF Next, RunStep, Trigger, LoadConfig, DiffState, WriteState,
     EmitPocEmails, Report, Tick, AssignPoc, DeleteUser, vars
<1>1. ASSUME pc[r] = "report", alert'[r] = alert[r], seen'[r] = seen[r],
             stamp'[r] = stamp[r], requested \subseteq requested'
      PROVE  \E e \in requested' :
               /\ Tells(e, r, h)' /\ e.poc = seen'[r].poc[h]
               /\ e.week = Week(stamp'[r])
  <2>1. PICK e \in requested :
          Tells(e, r, h) /\ e.poc = seen[r].poc[h] /\ e.week = Week(stamp[r])
    BY <1>0, <1>1 DEF NobodyForgotten
  <2>2. Tells(e, r, h)'
    BY <1>1, <2>1 DEF Tells
  <2> QED
    BY <1>1, <2>1, <2>2
<1>2. ASSUME NEW q \in Runs, Trigger(q) PROVE q # r
  BY <1>2 DEF Trigger, Advance, TInv, TypeOK
<1>3. ASSUME NEW q \in Runs, LoadConfig(q) \/ DiffState(q) \/ WriteState(q) PROVE q # r
  BY <1>3 DEF LoadConfig, DiffState, WriteState, Advance, Retry, TInv, TypeOK
<1>4. CASE EmitPocEmails(r)
  <2>1. requested' = requested \cup Digests(r)
    BY <1>4 DEF EmitPocEmails, Advance, Retry, TInv, TypeOK
  <2>2. UNCHANGED <<seen, alert, stamp, users>>
    BY <1>4 DEF EmitPocEmails
  <2> DEFINE p == seen[r].poc[h]
             e == [poc |-> p, week |-> Week(stamp[r]), hotels |-> Named(r, p),
                   more |-> More(r, p), n |-> Sent(p) + 1]
             worse == {g \in Group(r, p) : seen[r].rank[g] < seen[r].rank[h]}
  <2>3. p \in users /\ h \in Group(r, p)
    BY <2>2 DEF Group
  <2>4. e \in Digests(r)
    BY <2>3 DEF Digests
  <2>5. e \in requested' /\ e.poc = p /\ e.week = Week(stamp[r])
    BY <2>1, <2>3, <2>4
  <2>6. Tells(e, r, h)
    <3>1. CASE Cardinality(worse) < Cap
      <4>1. h \in Named(r, p)
        BY <2>3, <3>1 DEF Named
      <4> QED
        BY <4>1 DEF Tells
    <3>2. CASE ~(Cardinality(worse) < Cap)
      <4>1. /\ IsFiniteSet(Group(r, p)) /\ IsFiniteSet(worse)
            /\ Cardinality(worse) \in Nat /\ Cardinality(Group(r, p)) \in Nat
        BY GroupFinite, FS_Subset, FS_CardinalityType
      <4>2. seen[r].rank[h] \in Nat
        <5>1. h \in seen[r].bottom /\ seen[r].rank \in Rankings(seen[r].bottom)
          BY <2>3 DEF Group, TInv, Ranked
        <5> QED
          BY <5>1 DEF Rankings
      <4>3. h \notin worse
        BY <4>2
      <4>4. Cardinality(worse \cup {h}) = Cardinality(worse) + 1
        BY <4>1, <4>3, FS_AddElement
      <4>5. Cardinality(worse \cup {h}) <= Cardinality(Group(r, p))
        <5>1. worse \cup {h} \in SUBSET Group(r, p)
          BY <2>3
        <5> QED
          BY <4>1, <5>1, FS_Subset
      <4>6. Cardinality(Group(r, p)) > Cap /\ Cap <= Cardinality(worse)
        BY <3>2, <4>1, <4>4, <4>5
      <4>7. More(r, p) > 0
        BY <4>1, <4>6 DEF More
      <4>8. worse = {g \in alert[r] : /\ seen[r].poc[g] = p
                                      /\ seen[r].rank[g] < seen[r].rank[h]}
        BY DEF Group
      <4>9. e.more > 0
        BY <4>7
      <4> HIDE DEF worse, e
      <4> QED
        BY <4>6, <4>8, <4>9 DEF Tells
    <3> QED
      BY <3>1, <3>2
  <2> HIDE DEF e
  <2>7. PICK d \in requested' :
          Tells(d, r, h) /\ d.poc = seen[r].poc[h] /\ d.week = Week(stamp[r])
    BY <2>5, <2>6
  <2>8. Tells(d, r, h)'
    BY <2>2, <2>7 DEF Tells
  <2> QED
    BY <2>2, <2>7, <2>8
<1>5. CASE pc[r] = "report" /\ ~(\E q \in Runs : EmitPocEmails(q) /\ q = r)
  <2>1. requested \subseteq requested'
    BY <1>5 DEF Next, RunStep, Trigger, LoadConfig, DiffState, WriteState,
       EmitPocEmails, Report, Tick, AssignPoc, DeleteUser, vars
  <2>2. alert'[r] = alert[r] /\ seen'[r] = seen[r] /\ stamp'[r] = stamp[r]
    BY <1>2, <1>3, <1>5 DEF Next, RunStep, Trigger, LoadConfig, DiffState, WriteState,
       EmitPocEmails, Report, Tick, AssignPoc, DeleteUser, vars, runVars, TInv, TypeOK
  <2> QED
    BY <1>1, <1>5, <2>1, <2>2
<1>6. ASSUME pc[r] # "report", ~EmitPocEmails(r) PROVE FALSE
  BY <1>2, <1>3, <1>6 DEF Next, RunStep, Trigger, LoadConfig, DiffState, WriteState,
     EmitPocEmails, Report, Tick, AssignPoc, DeleteUser, vars, runVars, Advance, Retry, TInv, TypeOK
<1> QED
  BY <1>4, <1>5, <1>6

-----------------------------------------------------------------------------
(* Theorems.                                                               *)

LEMMA InitTypes == Init => TInv /\ NobodyForgotten
<1> SUFFICES ASSUME Init PROVE TInv /\ NobodyForgotten
  OBVIOUS
<1>1. /\ 1 \in 1..MaxNow /\ 0 \in 0..MaxNow /\ 0 \in 0..MaxRetries
      /\ IsFiniteSet(requested)
  BY FS_EmptySet DEF Init
<1>2. [row |-> FALSE, bottom |-> FALSE, alerted |-> Never] \in Row
  BY <1>1 DEF Row, Never
<1>3. TypeOK
  BY <1>1, <1>2, UnseenType DEF Init, TypeOK, Never, Seen
<1>4. Ranked
  BY UnseenType DEF Init, Ranked
<1> QED
  BY <1>1, <1>3, <1>4 DEF Init, TInv, NobodyForgotten

LEMMA TypesInvariant == Spec => [](TInv /\ NobodyForgotten)
<1>1. TInv /\ NobodyForgotten /\ [Next]_vars => (TInv /\ NobodyForgotten)'
  BY TypeStep, RankedStep, NamedStep DEF TInv
<1> QED
  BY <1>1, InitTypes, PTL DEF Spec

\* Every run, row and digest keeps its type, for any number of runs that
\* interleave and however often their steps are repeated.
THEOREM TypesHold == Spec => []TypeOK
<1>1. TInv /\ NobodyForgotten => TypeOK
  BY DEF TInv
<1> QED
  BY <1>1, TypesInvariant, PTL

\* For any number of runs that interleave, any cap and any accounts that are
\* deleted on the way: a run gets past emit-poc-emails only with a digest that
\* names each hotel it decided to alert, or that counts it because the cap is
\* full of hotels that are worse, unless the account of its POC is gone.
THEOREM NobodyIsForgotten == Spec => []NobodyForgotten
<1>1. TInv /\ NobodyForgotten => NobodyForgotten
  OBVIOUS
<1> QED
  BY <1>1, TypesInvariant, PTL
=============================================================================
