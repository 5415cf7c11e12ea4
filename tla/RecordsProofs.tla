--------------------------- MODULE RecordsProofs ---------------------------
(***************************************************************************)
(* The services over the store keep what they answer, for any number of    *)
(* concurrent requests, of names, ids, maps and buckets, and whichever     *)
(* service the clients talk to.                                            *)
(*                                                                         *)
(* AnswersHold is not inductive.  A handler reads a record in one step and *)
(* puts it back in another, and the record shares a map with every copy of *)
(* it.  So the invariant (Core) says besides that a map belongs to one key *)
(* (Apart), that two requests for a subject know that they are not alone   *)
(* (Solo), and that what a request that is alone has read is still so      *)
(* (UpToDate); only then does its write make true what it answers.         *)
(*                                                                         *)
(* That references are good needs what every deletion has looked at: there *)
(* was no record that refers to the one it deletes, or the two overlapped, *)
(* and then that was seen when the second of them began (Met).             *)
(***************************************************************************)
EXTENDS Records, TLAPS

(* What the answers rest on.                                                *)
Fields  == {"op", "subject", "key", "copy", "read", "field", "arg", "ref", "alone"}
Copiers == {"tagQueue", "authorize", "revoke", "createTags", "deleteTags", "terminate", "configure"}
RuleOps == {"authorize", "revoke"}
Blank   == [status |-> "none", map |-> NilMap]

\* Keys of the services that the clients of this behaviour talk to.
InWorkload(k) ==
  \/ workload = "names" /\ k \in NameKeys
  \/ workload = "roles" /\ k \in RoleKeys \cup AttachKeys
  \/ workload = "vpc" /\ k \in VpcKeys \cup SubnetKeys
  \/ workload = "groups" /\ k \in GroupKeys
  \/ workload = "members" /\ k \in GroupKeys \cup MemberKeys
  \/ workload = "sqs" /\ k \in QueueKeys
  \/ workload = "keypairs" /\ k \in PairKeys
  \/ workload = "tags" /\ k \in TaggedKeys
  \/ workload = "buckets" /\ k \in BucketKeys

\* Only instances change their status.
RecordOK(r) == r \in Records /\ (workload # "tags" => r.status = "available")

StoreOK == \A k \in DOMAIN store : InWorkload(k) /\ RecordOK(store[k])

TaskOK(h) ==
  /\ Fields \subseteq DOMAIN req[h] /\ req[h].alone \in BOOLEAN
  /\ req[h] = Idle \/ (~At(h, "idle") /\ InWorkload(Key(h)) /\ req[h].subject = SubjectOf(Key(h)))
  /\ IF req[h].op \in Copiers THEN RecordOK(req[h].copy) ELSE req[h].copy = Blank
  /\ req[h].op \in RuleOps => req[h].arg \subseteq {req[h].field} \X Rule

Shape == /\ req = [h \in Handler |-> req[h]] /\ said = [s \in Subject |-> said[s]]
         /\ maps = [m \in Map |-> maps[m]]
         /\ StoreOK /\ \A h \in Handler : TaskOK(h)

\* A map belongs to one key.
Apart ==
  /\ \A k, l \in DOMAIN store : store[k].map = store[l].map /\ store[k].map # NilMap => k = l
  /\ \A k \in DOMAIN store, h \in Handler : req[h].copy.map = store[k].map /\ store[k].map # NilMap => Key(h) = k
  /\ \A g, h \in Handler : req[g].copy.map = req[h].copy.map /\ req[g].copy.map # NilMap => Key(g) = Key(h)

\* Who has worked alone on a subject so far is alone.
Solo == \A g, h \in Handler : g # h /\ req[g].subject = req[h].subject /\ req[g].subject # Nobody => ~req[g].alone

\* What was promised holds until somebody's write, and the name is one record's.
Quiet(s) == said[s] # Unknown /\ \A h \in Busy(s) : req[h].alone
Single(s) == s[1] # "bucket" => \A k, l \in Listed(s) : k = l
Kept == \A s \in Subject : Quiet(s) => said[s] = View(s) /\ Single(s)

\* What a request that is alone has read is so.
UpToDate(h) ==
  req[h].alone /\ ~At(h, "idle") =>
    /\ req[h].op \in Copiers => Present(Key(h)) /\ store[Key(h)] = req[h].copy
    /\ req[h].op \in RuleOps => req[h].read = List(Key(h), req[h].field)
    /\ said[req[h].subject] # Unknown /\ workload # "buckets" => Listed(req[h].subject) \subseteq {Key(h)}

Core == Shape /\ Apart /\ Solo /\ Kept /\ \A h \in Handler : UpToDate(h)
-----------------------------------------------------------------------------
(* What refers to something.                                                *)
Child(k)  == k \in AttachKeys \cup SubnetKeys \cup MemberKeys
Parent(k) == CASE k[1] = "attachment" -> RoleKey(k[2][1])
               [] k[1] = "subnet"     -> VpcKey(k[2][1])
               [] OTHER               -> k[2][1]
Raced(k)  == SubjectOf(k) \in raced
Backed(k) == Present(Parent(k)) \/ Parent(k) \in taken \/ Raced(Parent(k))
Referring == {"attach", "putAttachment", "createSubnet", "runInstance"}
Dropping  == {"dropRole", "removeNetwork", "dropVpc", "dropGroup"}
Detaching == {"detach", "deleteSubnet"}
ChildOps  == Referring \cup Detaching

\* Two that work on a subject and on what refers to it have been seen to overlap.
Met == \A g, h \in Handler : g # h /\ req[g].subject \in Subject /\ req[h].ref = req[g].subject => req[g].subject \in raced

RefTask(h) ==
  /\ req[h].op \in Referring => Child(Key(h)) /\ req[h].ref = SubjectOf(Parent(Key(h))) /\ Backed(Key(h))
  /\ req[h].op \in Detaching => Child(Key(h))
  /\ req[h].op \in Dropping => Raced(Key(h)) \/ \A k \in DOMAIN store : Child(k) => Parent(k) # Key(h)
  /\ ~At(h, "idle") /\ Child(Key(h)) => req[h].op \in ChildOps \cup {"adminDelete"}
Refs == /\ Met
        /\ \A k \in DOMAIN store : Child(k) => Backed(k)
        /\ \A h \in Handler : RefTask(h)
-----------------------------------------------------------------------------
\* A handler that has no request.
LEMMA Blanks ==
  /\ Fields \subseteq DOMAIN Idle
  /\ Idle.op = "idle" /\ Idle.subject = Nobody /\ Idle.copy = Blank /\ Idle.ref = Nobody /\ Idle.alone = TRUE
  /\ Blank.map = NilMap /\ Blank.status = "none"
  /\ Nobody \notin Subject /\ NilMap \notin Map /\ Unknown \notin Subject
  BY RecordStoreAssumption, RecordsAssumption DEF Idle, Blank, Fields, NilMap

\* A name is the name of one key, but for the kinds that draw ids and for buckets.
Unique(k) == k \notin GroupKeys \cup PairKeys \cup BucketKeys

\* The keys of a behaviour are keys, of subjects that the clients talk about.
LEMMA InKeys ==
  ASSUME NEW k, InWorkload(k)
  PROVE  k \in Keys /\ SubjectOf(k) \in Subject
<1>1. k \in Keys
  BY DEF InWorkload, Keys
<1> QED BY <1>1, RecordsAssumption

\* Keys of different families have different kinds.
LEMMA Kinds ==
  /\ \A k \in RoleKeys : k[1] = "role" /\ Unique(k)
  /\ \A k \in AttachKeys : k[1] = "attachment" /\ Unique(k)
  /\ \A k \in NameKeys : k[1] \in {"user", "policy"} /\ Unique(k)
  /\ \A k \in VpcKeys : k[1] = "vpc" /\ Unique(k)
  /\ \A k \in SubnetKeys : k[1] = "subnet" /\ Unique(k)
  /\ \A k \in MemberKeys \cup TaggedKeys : k[1] = "instance" /\ Unique(k)
  /\ \A k \in QueueKeys : k[1] = "queue" /\ Unique(k)
  /\ \A k \in GroupKeys : k[1] = "sg"
  /\ \A k \in PairKeys : k[1] = "keypair"
  /\ \A k \in BucketKeys : k[1] = "bucket"
  BY DEF RoleKeys, AttachKeys, NameKeys, VpcKeys, SubnetKeys, MemberKeys, TaggedKeys, QueueKeys, GroupKeys,
         PairKeys, BucketKeys, RoleKey, AttachKey, UserKey, PolicyKey, VpcKey, SubnetKey, MemberKey,
         InstanceKey, QueueKey, GroupKey, PairKey, S3Key, GcsKey, Unique

\* A unique name is the name of one key.
LEMMA Named ==
  ASSUME NEW k, NEW l, InWorkload(k), InWorkload(l), SubjectOf(k) = SubjectOf(l), Unique(k)
  PROVE  k = l
<1>1. k[1] = l[1] /\ k[2] = l[2]
  BY DEF SubjectOf
<1>2. \/ k \in NameKeys /\ l \in NameKeys
      \/ k \in RoleKeys /\ l \in RoleKeys
      \/ k \in AttachKeys /\ l \in AttachKeys
      \/ k \in VpcKeys /\ l \in VpcKeys
      \/ k \in SubnetKeys /\ l \in SubnetKeys
      \/ k \in MemberKeys /\ l \in MemberKeys
      \/ k \in QueueKeys /\ l \in QueueKeys
      \/ k \in TaggedKeys /\ l \in TaggedKeys
  BY <1>1, Kinds DEF InWorkload, Unique
<1> QED BY <1>1, <1>2 DEF NameKeys, RoleKeys, AttachKeys, VpcKeys, SubnetKeys, MemberKeys, QueueKeys, TaggedKeys,
            RoleKey, AttachKey, UserKey, PolicyKey, VpcKey, SubnetKey, MemberKey, InstanceKey, QueueKey
-----------------------------------------------------------------------------
(* The records of a subject.                                                *)
\* Only the record under k, and the map it alone has, may have changed.
Touches(k) == /\ \A l : l # k => (l \in DOMAIN store' <=> l \in DOMAIN store)
              /\ \A l \in DOMAIN store : l # k => store'[l] = store[l] /\ Content(store[l])' = Content(store[l])

\* A write under one key leaves what is known of every other subject.
LEMMA Elsewhere ==
  ASSUME NEW k, Touches(k), NEW s, s # SubjectOf(k)
  PROVE  View(s)' = View(s) /\ Listed(s)' = Listed(s)
<1>1. Listed(s)' = Listed(s)
  BY DEF Listed, Touches
<1>2. \A l \in Listed(s) : store'[l] = store[l] /\ Content(store[l])' = Content(store[l])
  BY DEF Listed, Touches
<1> QED BY <1>1, <1>2 DEF View

\* What there is of a subject with one record, and with none.
LEMMA ViewOfOne ==
  ASSUME NEW k, NEW content, Listed(SubjectOf(k))' = {k}, store'[k].status = "available", Content(store[k])' = content
  PROVE  View(SubjectOf(k))' = Record(k, content)
  BY DEF View, Record, Only

LEMMA ViewOfNone ==
  ASSUME NEW s, Listed(s)' = {}
  PROVE  View(s)' = Gone
  BY DEF View, Gone
-----------------------------------------------------------------------------
(* Writing the record of a request.                                         *)
\* The map of the record that is there now is the one it or the copy had, or new.
MapOf(h, k) == k \in DOMAIN store' =>
  \/ store'[k].map = NilMap \/ store'[k].map \in Unused \/ store'[k].map = req[h].copy.map
  \/ k \in DOMAIN store /\ store'[k].map = store[k].map

\* A request that has written, or has found that it must not, is answered.
Answers(h, promise) ==
  /\ req' = [req EXCEPT ![h] = Idle]
  /\ said' = [said EXCEPT ![req[h].subject] = IF req[h].alone /\ @ # Unknown THEN promise ELSE Unknown]

Busily(h, k) == Core /\ h \in Handler /\ ~At(h, "idle") /\ k = Key(h) /\ workload' = workload

\* Who works on the subject of a request that is alone, is that request.
LEMMA BusyNow ==
  ASSUME NEW h, NEW k, Busily(h, k)
  PROVE  /\ InWorkload(k) /\ SubjectOf(k) \in Subject /\ req[h].subject = SubjectOf(k)
         /\ \A g \in Handler : g # h /\ req[g].subject = SubjectOf(k) => ~req[g].alone /\ ~req[h].alone
<1>1. InWorkload(k) /\ req[h].subject = SubjectOf(k)
  BY Blanks DEF Busily, Core, Shape, TaskOK, At
<1>2. SubjectOf(k) \in Subject
  BY <1>1, InKeys
<1> QED BY <1>1, <1>2, Blanks DEF Busily, Core, Solo

\* What an answer does to the requests and to the promises.
LEMMA OthersNow ==
  ASSUME NEW h, NEW k, Busily(h, k), NEW promise, Answers(h, promise)
  PROVE  /\ req' = [g \in Handler |-> IF g = h THEN Idle ELSE req[g]]
         /\ said' = [s \in Subject |-> IF s = SubjectOf(k)
                                       THEN IF req[h].alone /\ said[s] # Unknown THEN promise ELSE Unknown
                                       ELSE said[s]]
  BY BusyNow DEF Busily, Core, Shape, Answers

\* A write that is answered preserves the invariant, part by part: the shape,
LEMMA WriteShape ==
  ASSUME NEW h, NEW k, Busily(h, k), NEW promise, Answers(h, promise), StoreOK', maps' = [m \in Map |-> maps'[m]]
  PROVE  Shape'
<1>1. req' = [g \in Handler |-> req'[g]] /\ said' = [s \in Subject |-> said'[s]]
  BY OthersNow
<1>2. ASSUME NEW g \in Handler PROVE TaskOK(g)'
  <2>1. g = h => req'[g] = Idle
    BY <1>2, OthersNow
  <2>2. g # h => req'[g] = req[g]
    BY <1>2, OthersNow
  <2>3. TaskOK(g)
    BY <1>2 DEF Busily, Core, Shape
  <2>4. CASE g = h
    BY <2>1, <2>4, Blanks DEF TaskOK, Copiers, RuleOps
  <2>5. CASE g # h
    BY <2>2, <2>3, <2>5 DEF TaskOK, InWorkload, RecordOK, At, Busily, Key
  <2> QED BY <2>4, <2>5
<1> QED BY <1>1, <1>2 DEF Shape

\* that maps are not shared,
LEMMA WriteApart ==
  ASSUME NEW h, NEW k, Busily(h, k), NEW promise, Answers(h, promise), Touches(k), MapOf(h, k)
  PROVE  Apart'
<1>1. \A g \in Handler : req'[g].copy.map # NilMap => g # h /\ req'[g] = req[g]
  BY OthersNow, Blanks
<1>2. \A l \in DOMAIN store' : l # k => l \in DOMAIN store /\ store'[l] = store[l]
  BY DEF Touches
<1>3. ASSUME k \in DOMAIN store', store'[k].map # NilMap
      PROVE  /\ \A l \in DOMAIN store : store[l].map = store'[k].map => l = k
             /\ \A g \in Handler : req[g].copy.map = store'[k].map => Key(g) = k
  <2>1. CASE store'[k].map \in Unused
    BY <2>1 DEF Unused
  <2>2. CASE store'[k].map = req[h].copy.map
    BY <1>3, <2>2 DEF Busily, Core, Apart
  <2>3. CASE k \in DOMAIN store /\ store'[k].map = store[k].map
    BY <1>3, <2>3 DEF Busily, Core, Apart
  <2> QED BY <1>3, <2>1, <2>2, <2>3 DEF MapOf
<1>4. Apart
  BY DEF Busily, Core
<1>5. \A j, l \in DOMAIN store' : store'[j].map = store'[l].map /\ store'[j].map # NilMap => j = l
  BY <1>2, <1>3, <1>4 DEF Apart
<1>6. \A l \in DOMAIN store', g \in Handler : req'[g].copy.map = store'[l].map /\ store'[l].map # NilMap => req'[g].key = l
  BY <1>1, <1>2, <1>3, <1>4 DEF Apart, Key
<1>7. \A f, g \in Handler : req'[f].copy.map = req'[g].copy.map /\ req'[f].copy.map # NilMap => req'[f].key = req'[g].key
  BY <1>1, <1>4 DEF Apart, Key
<1> QED BY <1>5, <1>6, <1>7 DEF Apart, Key

\* that a request that is alone is alone,
LEMMA WriteSolo ==
  ASSUME NEW h, NEW k, Busily(h, k), NEW promise, Answers(h, promise)
  PROVE  Solo'
<1>1. Solo
  BY DEF Busily, Core
<1> QED BY <1>1, OthersNow, Blanks DEF Solo

\* that promises hold: on the subject itself only if the new promise is what is there,
LEMMA WriteKept ==
  ASSUME NEW h, NEW k, Busily(h, k), NEW promise, Answers(h, promise), Touches(k),
         req[h].alone /\ said[SubjectOf(k)] # Unknown =>
           promise = Unknown \/ (promise = View(SubjectOf(k))' /\ Single(SubjectOf(k))')
  PROVE  Kept'
<1> SUFFICES ASSUME NEW s \in Subject, Quiet(s)'
             PROVE  said'[s] = View(s)' /\ Single(s)'
  BY DEF Kept
<1>1. CASE s = SubjectOf(k)
  BY <1>1, OthersNow DEF Quiet
<1>2. CASE s # SubjectOf(k)
  <2>1. said'[s] = said[s] /\ said[s] # Unknown
    BY <1>2, OthersNow DEF Quiet
  <2>2. \A g \in Busy(s) : g # h /\ req'[g] = req[g]
    BY <1>2, BusyNow, OthersNow DEF Busy
  <2>3. Quiet(s)
    BY <2>1, <2>2 DEF Quiet, Busy
  <2>4. said[s] = View(s) /\ Single(s)
    BY <2>3 DEF Busily, Core, Kept
  <2> QED BY <1>2, <2>1, <2>4, Elsewhere DEF Single
<1> QED BY <1>1, <1>2

\* that what the other requests have read is so: those on other subjects, and all of them;
LEMMA FarUpToDate ==
  ASSUME Core, workload' = workload, NEW k, Touches(k), NEW g \in Handler, ~At(g, "idle"), req'[g] = req[g],
         req[g].subject # SubjectOf(k), said'[req[g].subject] = said[req[g].subject]
  PROVE  UpToDate(g)'
<1>1. PICK l : l = Key(g)
  OBVIOUS
<1>2. req[g].subject = SubjectOf(l)
  BY <1>1, Blanks DEF At, Core, Shape, TaskOK
<1>3. l # k
  BY <1>2
<1>4. UpToDate(g)
  BY DEF Core
<1>5. /\ l \in DOMAIN store => l \in DOMAIN store' /\ store'[l] = store[l] /\ Content(store[l])' = Content(store[l])
      /\ Listed(SubjectOf(l))' = Listed(SubjectOf(l))
  BY <1>2, <1>3, Elsewhere DEF Touches
<1>6. req[g].alone /\ req[g].op \in Copiers => Present(l)' /\ store'[l] = req[g].copy
  BY <1>1, <1>4, <1>5 DEF UpToDate, Present
<1>7. req[g].alone /\ req[g].op \in RuleOps => req[g].read = List(l, req[g].field)'
  BY <1>1, <1>4, <1>5 DEF UpToDate, Present, List, RuleOps, Copiers
<1>8. req[g].alone /\ said'[req[g].subject] # Unknown /\ workload' # "buckets" => Listed(req[g].subject)' \subseteq {l}
  BY <1>1, <1>2, <1>4, <1>5 DEF UpToDate
<1> QED BY <1>1, <1>6, <1>7, <1>8 DEF UpToDate, Key, Present, List, Listed

LEMMA WriteUpToDate ==
  ASSUME NEW h, NEW k, Busily(h, k), NEW promise, Answers(h, promise), Touches(k), NEW g \in Handler
  PROVE  UpToDate(g)'
<1> SUFFICES ASSUME req'[g].alone, ~At(g, "idle")' PROVE UpToDate(g)'
  BY DEF UpToDate
<1>1. g # h /\ req'[g] = req[g]
  BY OthersNow, Blanks DEF At
<1>2. ~At(g, "idle")
  BY <1>1 DEF At
<1>3. req[g].subject # SubjectOf(k)
  BY <1>1, BusyNow
<1>4. req[g].subject \in Subject
  BY <1>2, InKeys, Blanks DEF At, Busily, Core, Shape, TaskOK
<1>5. said'[req[g].subject] = said[req[g].subject]
  BY <1>3, <1>4, OthersNow
<1>6. Core /\ workload' = workload
  BY DEF Busily
<1> QED BY <1>1, <1>2, <1>3, <1>5, <1>6, FarUpToDate

\* ... and the whole of it.
LEMMA WriteKeeps ==
  ASSUME NEW h, NEW k, Busily(h, k), NEW promise, Answers(h, promise), Touches(k), MapOf(h, k),
         StoreOK', maps' = [m \in Map |-> maps'[m]],
         req[h].alone /\ said[SubjectOf(k)] # Unknown =>
           promise = Unknown \/ (promise = View(SubjectOf(k))' /\ Single(SubjectOf(k))')
  PROVE  Core'
  BY WriteShape, WriteApart, WriteSolo, WriteKept, WriteUpToDate DEF Core
-----------------------------------------------------------------------------
(* A request comes.                                                         *)
Blankly(r) == r.op \notin Copiers /\ r.copy = Blank
Copying(r, k) == r.op \in Copiers /\ Present(k) /\ r.copy = store[k]
Ruling(r, k) == r.op \in RuleOps => r.read = List(k, r.field) /\ r.arg \subseteq {r.field} \X Rule
OnlyOne(k) == Listed(SubjectOf(k)) \subseteq {k}

\* What r must be for a request that works on k from here on.
Fit(r, k) == /\ Fields \subseteq DOMAIN r /\ r.op # "idle" /\ r.key = k /\ r.subject = SubjectOf(k)
             /\ Blankly(r) \/ Copying(r, k)
             /\ Ruling(r, k)

Calmly == Core /\ workload' = workload

\* Those who worked on s go on, but not alone.
Same(p, r) == /\ r.op = p.op /\ r.subject = p.subject /\ r.key = p.key /\ r.copy = p.copy
              /\ r.read = p.read /\ r.field = p.field /\ r.arg = p.arg /\ r.ref = p.ref
              /\ Fields \subseteq DOMAIN r
MarkedAs(p, s, r) == Same(p, r) /\ (p.subject # s => r = p) /\ (p.subject = s => r.alone = FALSE)
MarkedFor(g, s) == MarkedAs(req[g], s, req'[g])

\* Those who are already working on the subject lose nothing but that they were alone.
LEMMA MarkedIs ==
  ASSUME Shape, NEW s
  PROVE  /\ Marked(s) = [g \in Handler |-> Marked(s)[g]]
         /\ \A g \in Handler : MarkedAs(req[g], s, Marked(s)[g])
<1>1. Marked(s) = [g \in Handler |-> IF g \in Busy(s) THEN [req[g] EXCEPT !.alone = FALSE] ELSE req[g]]
  BY DEF Marked
<1>2. ASSUME NEW g \in Handler PROVE MarkedAs(req[g], s, Marked(s)[g])
  <2>1. PICK p : p = req[g]
    OBVIOUS
  <2>2. PICK r : r = [p EXCEPT !.alone = FALSE]
    OBVIOUS
  <2>3. Fields \subseteq DOMAIN p
    BY <1>2, <2>1 DEF Shape, TaskOK
  <2>4. Same(p, p)
    BY <2>3 DEF Same
  <2>5. Same(p, r) /\ r.alone = FALSE
    BY <2>2, <2>3 DEF Same, Fields
  <2>6. Marked(s)[g] = IF p.subject = s THEN r ELSE p
    BY <1>1, <1>2, <2>1, <2>2 DEF Busy
  <2> QED BY <2>1, <2>4, <2>5, <2>6 DEF MarkedAs
<1> QED BY <1>1, <1>2

LEMMA MarkedOK ==
  ASSUME Calmly, NEW g \in Handler, NEW s \in Subject, MarkedFor(g, s)
  PROVE  TaskOK(g)'
<1>1. TaskOK(g)
  BY DEF Calmly, Core, Shape
<1>2. CASE req[g].subject # s
  BY <1>1, <1>2 DEF MarkedFor, MarkedAs, Same, TaskOK, InWorkload, RecordOK, At, Calmly, Key
<1>3. CASE req[g].subject = s
  <2>1. req[g] # Idle
    BY <1>3, Blanks
  <2> QED BY <1>1, <1>3, <2>1 DEF MarkedFor, MarkedAs, Same, TaskOK, InWorkload, RecordOK, At, Calmly, Key
<1> QED BY <1>2, <1>3

LEMMA MarkedUpToDate ==
  ASSUME Calmly, NEW g \in Handler, NEW s \in Subject, MarkedFor(g, s), store' = store, maps' = maps, said' = said
  PROVE  UpToDate(g)'
<1>1. CASE req[g].subject # s
  <2>1. UpToDate(g)
    BY DEF Calmly, Core
  <2> QED BY <1>1, <2>1 DEF MarkedFor, MarkedAs, Same, UpToDate, Key, Present, List, Content, Listed, At, Calmly
<1>2. CASE req[g].subject = s
  BY <1>2 DEF MarkedFor, MarkedAs, Same, UpToDate
<1> QED BY <1>1, <1>2

\* A request that has read what is there preserves the invariant.
LEMMA FitKeeps ==
  ASSUME Calmly, NEW h \in Handler, req[h] = Idle, NEW k, InWorkload(k), NEW r, Fit(r, k),
         req' = [Marked(SubjectOf(k)) EXCEPT ![h] = r], r.alone = (Busy(SubjectOf(k)) = {}),
         UNCHANGED <<store, maps, said>>,
         said[SubjectOf(k)] # Unknown /\ Busy(SubjectOf(k)) = {} /\ workload # "buckets" => OnlyOne(k)
  PROVE  Core'
<1>1. PICK s \in Subject : s = SubjectOf(k)
  BY InKeys
<1>2. Shape /\ Apart /\ Solo /\ Kept
  BY DEF Calmly, Core
<1>3. req' = [g \in Handler |-> IF g = h THEN r ELSE Marked(s)[g]]
  BY <1>1, <1>2, MarkedIs
<1>4. \A g \in Handler : g # h => MarkedFor(g, s)
  BY <1>2, <1>3, MarkedIs DEF MarkedFor
<1>5. req'[h] = r
  BY <1>3
<1>6. \A g \in Handler : g # h => TaskOK(g)' /\ UpToDate(g)'
  BY <1>4, MarkedOK, MarkedUpToDate
<1>7. TaskOK(h)'
  <2>1. RecordOK(r.copy)' \/ Blankly(r)
    BY <1>2 DEF Fit, Copying, Shape, StoreOK, Present, RecordOK, Calmly
  <2>2. IF r.op \in Copiers THEN RecordOK(r.copy)' ELSE r.copy = Blank
    BY <2>1 DEF Fit, Blankly, Copying
  <2>3. InWorkload(k)'
    BY DEF InWorkload, Calmly
  <2> QED BY <1>5, <2>2, <2>3 DEF TaskOK, Fit, Ruling, At, Key, RecordOK
<1>8. Shape'
  <2>1. StoreOK'
    BY <1>2 DEF Shape, StoreOK, InWorkload, RecordOK, Calmly
  <2> QED BY <1>2, <1>3, <1>6, <1>7, <2>1 DEF Shape
<1>9. Apart'
  <2>1. r.copy.map # NilMap => k \in DOMAIN store /\ r.copy.map = store[k].map
    BY Blanks DEF Fit, Blankly, Copying, Present
  <2>2. \A g \in Handler : g # h => req'[g].copy = req[g].copy /\ req'[g].key = req[g].key
    BY <1>4 DEF MarkedFor, MarkedAs, Same
  <2>3. \A l \in DOMAIN store, g \in Handler : req'[g].copy.map = store[l].map /\ store[l].map # NilMap => req'[g].key = l
    BY <1>2, <1>5, <2>1, <2>2 DEF Apart, Key, Fit
  <2>4. \A f, g \in Handler : req'[f].copy.map = req'[g].copy.map /\ req'[f].copy.map # NilMap => req'[f].key = req'[g].key
    BY <1>2, <1>5, <2>1, <2>2 DEF Apart, Key, Fit
  <2> QED BY <1>2, <2>3, <2>4 DEF Apart, Key
<1>10. Solo'
  <2>1. \A g \in Handler : g # h => /\ req'[g].subject = req[g].subject
                                    /\ req'[g].alone => req[g].alone
                                    /\ req[g].subject = s => ~req'[g].alone /\ ~r.alone
    <3> TAKE g \in Handler
    <3> HAVE g # h
    <3>1. MarkedFor(g, s) /\ TaskOK(g)'
      BY <1>4, <1>6
    <3>2. CASE req[g].subject = s
      BY <1>1, <3>1, <3>2 DEF MarkedFor, MarkedAs, Same, Busy
    <3>3. CASE req[g].subject # s
      BY <3>1, <3>3 DEF MarkedFor, MarkedAs, Same
    <3> QED BY <3>2, <3>3
  <2>2. r.subject = s
    BY <1>1 DEF Fit
  <2> QED BY <1>2, <1>5, <2>1, <2>2 DEF Solo
<1>11. Kept'
  <2> SUFFICES ASSUME NEW t \in Subject, Quiet(t)' PROVE said'[t] = View(t)' /\ Single(t)'
    BY DEF Kept
  <2>1. Quiet(t)
    <3>1. \A g \in Busy(t) : g # h
      BY Blanks DEF Busy
    <3>2. \A g \in Busy(t) : req'[g].subject = t /\ req'[g].alone
      BY <1>4, <3>1 DEF Busy, MarkedFor, MarkedAs, Same, Quiet
    <3>3. \A g \in Busy(t) : req[g].subject # s => req'[g] = req[g]
      BY <1>4, <3>1 DEF Busy, MarkedFor, MarkedAs, Same
    <3>4. \A g \in Busy(t) : req[g].subject # s
      BY <1>4, <3>1, <3>2 DEF Busy, MarkedFor, MarkedAs, Same
    <3> QED BY <3>2, <3>3, <3>4 DEF Quiet
  <2> QED BY <1>2, <2>1 DEF Kept, View, Single, Listed, Content
<1>12. UpToDate(h)'
  <2>1. r.op \in Copiers => k \in DOMAIN store /\ store[k] = r.copy
    BY DEF Fit, Blankly, Copying, Present
  <2>2. r.op \in RuleOps => r.read = List(k, r.field)
    BY DEF Fit, Ruling
  <2>3. r.alone /\ said[s] # Unknown /\ workload # "buckets" => Listed(s) \subseteq {k}
    BY <1>1 DEF OnlyOne
  <2>4. r.key = k /\ r.subject = s
    BY <1>1 DEF Fit
  <2> QED BY <1>5, <2>1, <2>2, <2>3, <2>4 DEF UpToDate, Key, Present, List, Content, Listed, At, Calmly
<1> QED BY <1>6, <1>8, <1>9, <1>10, <1>11, <1>12 DEF Core

\* The record of a request that has just come.
Given(fields, f, v) == IF f \in DOMAIN fields THEN fields[f] ELSE v
Entered(r, op, s, fields) ==
  /\ Fields \subseteq DOMAIN r /\ r.op = op /\ r.subject = s /\ r.alone = (Busy(s) = {})
  /\ r.key = Given(fields, "key", Idle.key) /\ r.copy = Given(fields, "copy", Blank)
  /\ r.read = Given(fields, "read", {}) /\ r.field = Given(fields, "field", "none")
  /\ r.arg = Given(fields, "arg", {}) /\ r.ref = Given(fields, "ref", Nobody)
Overlapping(r, s) == raced' = raced \cup {t \in {r.ref} \cap Subject : Busy(t) # {}}
                                    \cup {t \in {s} : \E g \in Handler : req[g].ref = s}

\* What Enter makes of the fields it is given.
LEMMA EnterGives ==
  ASSUME NEW h, NEW op, NEW s, NEW fields, Enter(h, op, s, fields),
         DOMAIN fields \subseteq {"key", "copy", "read", "field", "arg", "ref"}
  PROVE  /\ req[h] = Idle /\ said' = said
         /\ \E r : Entered(r, op, s, fields) /\ Overlapping(r, s) /\ req' = [Marked(s) EXCEPT ![h] = r]
<1>1. PICK idle : idle = [Idle EXCEPT !.op = op, !.subject = s, !.alone = Busy(s) = {}]
  OBVIOUS
<1>2. PICK r : r = Over(fields, idle)
  OBVIOUS
<1>3. /\ Fields = DOMAIN idle
      /\ idle["op"] = op /\ idle["subject"] = s /\ idle["alone"] = (Busy(s) = {})
      /\ idle["key"] = Idle.key /\ idle["copy"] = Blank /\ idle["read"] = {} /\ idle["field"] = "none"
      /\ idle["arg"] = {} /\ idle["ref"] = Nobody
  BY <1>1 DEF Idle, Fields, Blank
<1>4. /\ Fields \subseteq DOMAIN r
      /\ \A f \in Fields : r[f] = IF f \in DOMAIN fields THEN fields[f] ELSE idle[f]
  BY <1>2, <1>3 DEF Over
<1>5. Entered(r, op, s, fields)
  BY <1>3, <1>4 DEF Entered, Given, Fields
<1>6. req[h] = Idle /\ said' = said /\ req' = [Marked(s) EXCEPT ![h] = r] /\ Overlapping(r, s)
  BY <1>1, <1>2 DEF Enter, Overlapping
<1> QED BY <1>5, <1>6
-----------------------------------------------------------------------------
(* Requests by what they carry.                                             *)
\* h works on k now; it may refer to ref.
Begun(h, op, k, ref) ==
  /\ req[h] = Idle /\ UNCHANGED <<store, maps, said>>
  /\ req'[h].op = op /\ req'[h].key = k /\ req'[h].subject = SubjectOf(k) /\ req'[h].ref = ref
  /\ \A g \in Handler : g # h => MarkedFor(g, SubjectOf(k))
  /\ raced' = raced \cup {t \in {ref} \cap Subject : Busy(t) # {}}
                    \cup {t \in {SubjectOf(k)} : \E g \in Handler : req[g].ref = SubjectOf(k)}

\* A request that begins carries the key it was given and refers to what it was given.
LEMMA BegunIs ==
  ASSUME Calmly, NEW h \in Handler, NEW k, NEW op, NEW fields, Begin(h, op, SubjectOf(k), fields),
         DOMAIN fields \subseteq {"key", "copy", "read", "field", "arg", "ref"},
         NEW r, Entered(r, op, SubjectOf(k), fields), Overlapping(r, SubjectOf(k)),
         req' = [Marked(SubjectOf(k)) EXCEPT ![h] = r], Given(fields, "key", Idle.key) = k
  PROVE  Begun(h, op, k, Given(fields, "ref", Nobody))
<1>1. Shape
  BY DEF Calmly, Core
<1>2. req' = [g \in Handler |-> IF g = h THEN r ELSE Marked(SubjectOf(k))[g]]
  BY <1>1, MarkedIs
<1>3. \A g \in Handler : g # h => MarkedFor(g, SubjectOf(k))
  BY <1>1, <1>2, MarkedIs DEF MarkedFor
<1>4. req[h] = Idle /\ UNCHANGED <<store, maps, said>>
  BY DEF Begin, Enter
<1> QED BY <1>2, <1>3, <1>4 DEF Begun, Entered, Overlapping

\* A request without a copy of the record.
LEMMA BeginKeeps ==
  ASSUME Calmly, NEW h \in Handler, NEW k, InWorkload(k), NEW op, op \notin Copiers \cup {"idle"},
         NEW fields, Begin(h, op, SubjectOf(k), fields),
         DOMAIN fields \subseteq {"key", "arg", "ref"}, "key" \in DOMAIN fields, fields["key"] = k,
         said[SubjectOf(k)] # Unknown /\ Busy(SubjectOf(k)) = {} /\ workload # "buckets" => OnlyOne(k)
  PROVE  Core' /\ Begun(h, op, k, Given(fields, "ref", Nobody))
<1>1. PICK r : Entered(r, op, SubjectOf(k), fields) /\ Overlapping(r, SubjectOf(k))
               /\ req' = [Marked(SubjectOf(k)) EXCEPT ![h] = r]
  BY EnterGives DEF Begin
<1>2. req[h] = Idle /\ UNCHANGED <<store, maps, said>>
  BY EnterGives DEF Begin
<1>3. Fit(r, k)
  BY <1>1 DEF Fit, Entered, Given, Blankly, Ruling, RuleOps, Copiers
<1>4. Core'
  BY <1>1, <1>2, <1>3, FitKeeps DEF Entered
<1>5. Begun(h, op, k, Given(fields, "ref", Nobody))
  BY <1>1, BegunIs DEF Given
<1> QED BY <1>4, <1>5

\* A request with one.
LEMMA BeginCopyKeeps ==
  ASSUME Calmly, NEW h \in Handler, NEW k, InWorkload(k), NEW op \in Copiers, Present(k),
         NEW fields, Begin(h, op, SubjectOf(k), fields),
         DOMAIN fields \subseteq {"key", "copy", "read", "field", "arg"}, {"key", "copy"} \subseteq DOMAIN fields,
         fields["key"] = k, fields["copy"] = store[k],
         op \in RuleOps => /\ {"read", "field", "arg"} \subseteq DOMAIN fields
                           /\ fields["read"] = List(k, fields["field"])
                           /\ fields["arg"] \subseteq {fields["field"]} \X Rule,
         said[SubjectOf(k)] # Unknown /\ Busy(SubjectOf(k)) = {} /\ workload # "buckets" => OnlyOne(k)
  PROVE  Core' /\ Begun(h, op, k, Nobody)
<1>1. PICK r : Entered(r, op, SubjectOf(k), fields) /\ Overlapping(r, SubjectOf(k))
               /\ req' = [Marked(SubjectOf(k)) EXCEPT ![h] = r]
  BY EnterGives DEF Begin
<1>2. req[h] = Idle /\ UNCHANGED <<store, maps, said>>
  BY EnterGives DEF Begin
<1>3. Fit(r, k)
  BY <1>1 DEF Fit, Entered, Given, Copying, Ruling, RuleOps, Copiers
<1>4. Core'
  BY <1>1, <1>2, <1>3, FitKeeps DEF Entered
<1>5. Begun(h, op, k, Given(fields, "ref", Nobody))
  BY <1>1, BegunIs DEF Given
<1>6. Given(fields, "ref", Nobody) = Nobody
  BY DEF Given
<1> QED BY <1>4, <1>5, <1>6

\* The name is this key's, or the record was the only one when last told.
LEMMA OneKey ==
  ASSUME Calmly, NEW k, InWorkload(k),
         \/ Unique(k)
         \/ Listed(SubjectOf(k)) = {}
         \/ Present(k) /\ said[SubjectOf(k)] # Unknown /\ Busy(SubjectOf(k)) = {} /\ workload # "buckets"
  PROVE  OnlyOne(k)
<1>1. \A l \in Listed(SubjectOf(k)) : InWorkload(l) /\ SubjectOf(l) = SubjectOf(k)
  BY DEF Calmly, Core, Shape, StoreOK, Listed
<1>2. CASE Unique(k)
  BY <1>1, <1>2, Named DEF OnlyOne
<1>3. CASE Listed(SubjectOf(k)) = {}
  BY <1>3 DEF OnlyOne
<1>4. CASE Present(k) /\ said[SubjectOf(k)] # Unknown /\ Busy(SubjectOf(k)) = {} /\ workload # "buckets"
  <2>1. SubjectOf(k) \in Subject
    BY InKeys
  <2>2. Single(SubjectOf(k))
    BY <1>4, <2>1 DEF Calmly, Core, Kept, Quiet
  <2>3. SubjectOf(k)[1] # "bucket"
    BY <1>4, Kinds DEF InWorkload, SubjectOf
  <2>4. k \in Listed(SubjectOf(k))
    BY <1>4 DEF Listed, Present
  <2> QED BY <2>2, <2>3, <2>4 DEF Single, OnlyOne
<1> QED BY <1>2, <1>3, <1>4
-----------------------------------------------------------------------------
(* Reads, and requests that only go on.                                     *)
LEMMA ShowsKeeps ==
  ASSUME Calmly, NEW subjects, Shows(subjects)
  PROVE  Core'
<1>1. UNCHANGED <<store, maps, req, workload>> /\ Shape /\ Apart /\ Solo /\ Kept
  BY DEF Calmly, Core, Shows
<1>2. \A s \in Subject : said'[s] = IF s \in subjects /\ Busy(s) = {} /\ NameIsUnique(s) THEN View(s) ELSE said[s]
  BY DEF Shows
<1>3. Shape'
  BY <1>1 DEF Shows, Shape, StoreOK, TaskOK, InWorkload, RecordOK, At, Key
<1>4. Apart' /\ Solo'
  BY <1>1 DEF Apart, Solo, Key
<1>5. Kept'
  <2> SUFFICES ASSUME NEW s \in Subject, Quiet(s)' PROVE said'[s] = View(s)' /\ Single(s)'
    BY DEF Kept
  <2>1. CASE s \in subjects /\ Busy(s) = {} /\ NameIsUnique(s)
    BY <1>1, <1>2, <2>1 DEF NameIsUnique, Single, View, Listed, Content
  <2>2. CASE ~(s \in subjects /\ Busy(s) = {} /\ NameIsUnique(s))
    <3>1. Quiet(s)
      BY <1>1, <1>2, <2>2 DEF Quiet, Busy
    <3> QED BY <1>1, <1>2, <2>2, <3>1 DEF Kept, Single, View, Listed, Content
  <2> QED BY <2>1, <2>2
<1>6. ASSUME NEW g \in Handler PROVE UpToDate(g)'
  <2>1. UpToDate(g)
    BY <1>6 DEF Calmly, Core
  <2>2. ~At(g, "idle") => req[g].subject \in Subject
    BY <1>1, <1>6, InKeys, Blanks DEF Shape, TaskOK, At
  <2>3. ~At(g, "idle") => said'[req[g].subject] = said[req[g].subject]
    BY <1>2, <1>6, <2>2 DEF Busy
  <2> QED BY <1>1, <2>1, <2>3 DEF UpToDate, Key, At, Present, List, Content, Listed
<1> QED BY <1>3, <1>4, <1>5, <1>6 DEF Core

\* h goes on with the same request, and has read the record or not.
Turned(h, op) == /\ UNCHANGED <<store, maps, said, raced>>
                 /\ req'[h].op = op /\ req'[h].key = req[h].key /\ req'[h].subject = req[h].subject
                 /\ req'[h].ref = req[h].ref
                 /\ \A g \in Handler : g # h => req'[g] = req[g]

\* A request that goes on preserves the invariant, with the record read or without one.
LEMMA TurnKeeps ==
  ASSUME NEW h, NEW k, Busily(h, k), UNCHANGED <<store, maps, said>>, NEW r, req' = [req EXCEPT ![h] = r],
         Fields \subseteq DOMAIN r, r.op \notin RuleOps \cup {"idle"}, Blankly(r) \/ Copying(r, k),
         r.key = k, r.subject = req[h].subject, r.alone = req[h].alone
  PROVE  Core'
<1>1. Shape /\ Apart /\ Solo /\ Kept /\ h \in Handler /\ k = Key(h) /\ ~At(h, "idle") /\ workload' = workload
  BY DEF Busily, Core
<1>2. req' = [g \in Handler |-> IF g = h THEN r ELSE req[g]]
  BY <1>1 DEF Shape
<1>3. InWorkload(k) /\ InWorkload(k)' /\ r.subject = SubjectOf(k)
  BY <1>1, BusyNow DEF InWorkload
<1>4. RecordOK(r.copy)' \/ Blankly(r)
  BY <1>1 DEF Copying, Shape, StoreOK, Present, RecordOK
<1>5. TaskOK(h)'
  <2>1. IF r.op \in Copiers THEN RecordOK(r.copy)' ELSE r.copy = Blank
    BY <1>4 DEF Blankly, Copying
  <2>2. r.alone \in BOOLEAN
    BY <1>1 DEF Shape, TaskOK
  <2> QED BY <1>1, <1>2, <1>3, <2>1, <2>2 DEF TaskOK, At, Key, RecordOK
<1>6. \A g \in Handler : g # h => TaskOK(g)' /\ UpToDate(g)'
  <2> TAKE g \in Handler
  <2> HAVE g # h
  <2>1. req'[g] = req[g] /\ TaskOK(g) /\ UpToDate(g)
    BY <1>2 DEF Busily, Core, Shape
  <2> QED BY <1>1, <2>1 DEF TaskOK, UpToDate, InWorkload, RecordOK, At, Key, Present, List, Content, Listed
<1>7. Shape'
  <2>1. StoreOK'
    BY <1>1 DEF Shape, StoreOK, InWorkload, RecordOK
  <2> QED BY <1>1, <1>2, <1>5, <1>6, <2>1 DEF Shape
<1>8. Apart'
  <2>1. r.copy.map # NilMap => k \in DOMAIN store /\ r.copy.map = store[k].map
    BY Blanks DEF Blankly, Copying, Present
  <2>2. \A g \in Handler : g # h => req'[g] = req[g]
    BY <1>2
  <2>3. req'[h].copy = r.copy /\ req'[h].key = k
    BY <1>1, <1>2
  <2>4. \A l \in DOMAIN store, g \in Handler : req'[g].copy.map = store[l].map /\ store[l].map # NilMap => req'[g].key = l
    BY <1>1, <2>1, <2>2, <2>3 DEF Apart, Key
  <2>5. \A f, g \in Handler : req'[f].copy.map = req'[g].copy.map /\ req'[f].copy.map # NilMap => req'[f].key = req'[g].key
    BY <1>1, <2>1, <2>2, <2>3 DEF Apart, Key
  <2> QED BY <1>1, <2>4, <2>5 DEF Apart, Key
<1>9. Solo'
  <2>1. \A g \in Handler : req'[g].subject = req[g].subject /\ req'[g].alone = req[g].alone
    BY <1>2
  <2> QED BY <1>1, <2>1 DEF Solo
<1>10. Kept'
  <2>1. \A g \in Handler : req'[g].subject = req[g].subject /\ req'[g].alone = req[g].alone
    BY <1>2
  <2>2. \A s \in Subject : Quiet(s)' => Quiet(s)
    BY <2>1 DEF Quiet, Busy
  <2> QED BY <1>1, <2>2 DEF Kept, Single, View, Listed, Content
<1>11. UpToDate(h)'
  <2>1. UpToDate(h)
    BY <1>1 DEF Busily, Core
  <2>2. r.op \in Copiers => k \in DOMAIN store /\ store[k] = r.copy
    BY DEF Blankly, Copying, Present
  <2>3. r.alone /\ said[req[h].subject] # Unknown /\ workload # "buckets" => Listed(req[h].subject) \subseteq {k}
    BY <1>1, <2>1 DEF UpToDate
  <2>4. req'[h] = r
    BY <1>1, <1>2
  <2> QED BY <1>1, <2>2, <2>3, <2>4 DEF UpToDate, Key, Present, Listed, At
<1> QED BY <1>5, <1>6, <1>7, <1>8, <1>9, <1>10, <1>11 DEF Core

LEMMA GotoKeeps ==
  ASSUME NEW h, NEW k, Busily(h, k), req[h].op \notin Copiers, UNCHANGED <<store, maps>>,
         NEW op, op \notin Copiers \cup {"idle"}, Goto(h, op)
  PROVE  Core' /\ Turned(h, op)
<1>1. Shape /\ h \in Handler /\ TaskOK(h) /\ k = req[h].key
  BY DEF Busily, Core, Shape, Key
<1>2. PICK p : p = req[h]
  OBVIOUS
<1>3. PICK r : r = [p EXCEPT !.op = op]
  OBVIOUS
<1>4. Fields \subseteq DOMAIN r /\ r.op = op /\ r.key = p.key /\ r.subject = p.subject /\ r.alone = p.alone
      /\ r.copy = p.copy /\ r.ref = p.ref
  BY <1>1, <1>2, <1>3 DEF TaskOK, Fields
<1>5. req' = [req EXCEPT ![h] = r] /\ UNCHANGED <<said, raced>>
  BY <1>2, <1>3 DEF Goto
<1>6. Blankly(r)
  BY <1>1, <1>2, <1>4 DEF TaskOK, Blankly
<1>7. Core'
  BY <1>1, <1>2, <1>4, <1>5, <1>6, TurnKeeps DEF RuleOps, Copiers
<1>8. req' = [g \in Handler |-> IF g = h THEN r ELSE req[g]]
  BY <1>1, <1>5 DEF Shape
<1> QED BY <1>1, <1>2, <1>4, <1>5, <1>7, <1>8 DEF Turned
-----------------------------------------------------------------------------
(* Writes.                                                                  *)
\* The record under k is there now, with this status and content; or it is gone.
Written(h, k) == Touches(k) /\ MapOf(h, k) /\ StoreOK' /\ maps' = [m \in Map |-> maps'[m]]
Stored(h, k, status, content) == /\ Written(h, k) /\ k \in DOMAIN store'
                                 /\ store'[k].status = status /\ Content(store[k])' = content
Removed(h, k) == /\ Written(h, k)
                 /\ k \notin DOMAIN store' /\ DOMAIN store' \subseteq DOMAIN store
\* What a Put leaves in the store.
LEMMA PutIs ==
  ASSUME NEW k, NEW r, Put(k, r)
  PROVE  /\ DOMAIN store' = DOMAIN store \cup {k} /\ store'[k] = r
         /\ \A l \in DOMAIN store : l # k => store'[l] = store[l]
  BY DEF Put, Over, Only

LEMMA PutStoreOK ==
  ASSUME NEW h, NEW k, Busily(h, k), NEW r, RecordOK(r), Put(k, r)
  PROVE  StoreOK'
<1>1. StoreOK /\ workload' = workload /\ InWorkload(k)
  BY BusyNow DEF Busily, Core, Shape
<1>2. DOMAIN store' = DOMAIN store \cup {k} /\ store'[k] = r
  BY PutIs
<1>3. \A l \in DOMAIN store : l # k => store'[l] = store[l]
  BY PutIs
<1>4. \A l \in DOMAIN store' : InWorkload(l) /\ RecordOK(store'[l])
  BY <1>1, <1>2, <1>3 DEF StoreOK, RecordOK
<1> QED BY <1>1, <1>4 DEF StoreOK, InWorkload, RecordOK

\* A fresh map is nobody's.
LEMMA FreshNow ==
  ASSUME Shape, NEW m \in FreshMap
  PROVE  /\ m \in Map /\ m # NilMap /\ m \in Unused
         /\ \A k \in DOMAIN store : store[k].map # m
  BY Blanks DEF FreshMap, Unused

\* The three Puts: with no map, with a fresh one, and of a copy.
LEMMA PutBareStores ==
  ASSUME NEW h, NEW k, Busily(h, k), PutBare(k)
  PROVE  Stored(h, k, "available", {})
<1>1. PICK r : r = [status |-> "available", map |-> NilMap]
  OBVIOUS
<1>2. Put(k, r) /\ maps' = maps /\ r.status = "available" /\ r.map = NilMap
  BY <1>1 DEF PutBare
<1>3. RecordOK(r)
  BY <1>1 DEF RecordOK, Records
<1>4. StoreOK'
  BY <1>2, <1>3, PutStoreOK
<1>5. Touches(k)
  BY <1>2, PutIs DEF Touches, Content
<1>6. maps' = [m \in Map |-> maps'[m]]
  BY <1>2 DEF Busily, Core, Shape
<1>7. MapOf(h, k) /\ k \in DOMAIN store' /\ store'[k] = r
  BY <1>2, PutIs DEF MapOf
<1> QED BY <1>2, <1>4, <1>5, <1>6, <1>7 DEF Stored, Written, Content

LEMMA PutNewStores ==
  ASSUME NEW h, NEW k, Busily(h, k), NEW content, PutNew(k, content)
  PROVE  Stored(h, k, "available", content)
<1>1. PICK m \in FreshMap : /\ Put(k, [status |-> "available", map |-> m])
                            /\ maps' = [maps EXCEPT ![m] = content]
  BY DEF PutNew
<1>2. PICK r : r = [status |-> "available", map |-> m]
  OBVIOUS
<1>3. Put(k, r) /\ r.status = "available" /\ r.map = m
  BY <1>1, <1>2
<1>4. Shape
  BY DEF Busily, Core
<1>5. m \in Map /\ m # NilMap /\ m \in Unused /\ \A l \in DOMAIN store : store[l].map # m
  BY <1>4, FreshNow
<1>6. RecordOK(r)
  BY <1>2, <1>5 DEF RecordOK, Records
<1>7. maps' = [n \in Map |-> IF n = m THEN content ELSE maps[n]]
  BY <1>1, <1>4 DEF Shape
<1>8. Touches(k)
  <2>1. \A l \in DOMAIN store : store[l].map # NilMap => store[l].map \in Map
    BY <1>4 DEF Shape, StoreOK, RecordOK, Records
  <2> QED BY <1>3, <1>5, <1>7, <2>1, PutIs DEF Touches, Content
<1>9. MapOf(h, k) /\ k \in DOMAIN store' /\ store'[k] = r
  BY <1>3, <1>5, PutIs DEF MapOf
<1>10. StoreOK'
  BY <1>3, <1>6, PutStoreOK
<1> QED BY <1>3, <1>5, <1>7, <1>8, <1>9, <1>10 DEF Stored, Written, Content

LEMMA PutCopyStores ==
  ASSUME NEW h, NEW k, Busily(h, k), req[h].op \in Copiers, NEW content, PutCopy(h, content)
  PROVE  Stored(h, k, req[h].copy.status, content)
<1>1. PICK p : p = req[h].copy
  OBVIOUS
<1>2. PICK m \in IF p.map = NilMap THEN FreshMap ELSE {p.map} :
        maps' = [maps EXCEPT ![m] = content] /\ Put(k, [p EXCEPT !.map = m])
  BY <1>1 DEF PutCopy, Busily, Key
<1>3. PICK r : r = [p EXCEPT !.map = m]
  OBVIOUS
<1>4. Shape /\ Apart /\ h \in Handler /\ k = Key(h)
  BY DEF Busily, Core
<1>5. RecordOK(p)
  BY <1>1, <1>4 DEF Shape, TaskOK
<1>6. m \in Map /\ m # NilMap
  BY <1>2, <1>4, <1>5, FreshNow DEF RecordOK, Records
<1>7. RecordOK(r) /\ r.status = p.status /\ r.map = m
  BY <1>3, <1>5, <1>6 DEF RecordOK, Records
<1>8. m \in Unused \/ m = p.map
  BY <1>2, <1>4, FreshNow
<1>9. \A l \in DOMAIN store : l # k => store[l].map # m
  <2>1. CASE p.map = NilMap
    BY <1>2, <1>4, <2>1, FreshNow
  <2>2. CASE p.map # NilMap
    BY <1>1, <1>2, <1>4, <2>2 DEF Apart
  <2> QED BY <2>1, <2>2
<1>10. Put(k, r)
  BY <1>2, <1>3
<1>11. maps' = [n \in Map |-> IF n = m THEN content ELSE maps[n]]
  BY <1>2, <1>4 DEF Shape
<1>12. Touches(k)
  <2>1. \A l \in DOMAIN store : store[l].map # NilMap => store[l].map \in Map
    BY <1>4 DEF Shape, StoreOK, RecordOK, Records
  <2>2. DOMAIN store' = DOMAIN store \cup {k} /\ \A l \in DOMAIN store : l # k => store'[l] = store[l]
    BY <1>10, PutIs
  <2>3. \A l \in DOMAIN store : l # k /\ store[l].map # NilMap => maps'[store[l].map] = maps[store[l].map]
    BY <1>9, <1>11, <2>1
  <2> QED BY <2>2, <2>3 DEF Touches, Content
<1>13. MapOf(h, k) /\ k \in DOMAIN store' /\ store'[k] = r
  BY <1>1, <1>7, <1>8, <1>10, PutIs DEF MapOf
<1>14. StoreOK'
  BY <1>7, <1>10, PutStoreOK
<1> QED BY <1>1, <1>6, <1>7, <1>11, <1>12, <1>13, <1>14 DEF Stored, Written, Content

\* The copy is put back with a status of its own, or as it was.
LEMMA PutBackStores ==
  ASSUME NEW h, NEW k, Busily(h, k), NEW r, RecordOK(r), r.map = req[h].copy.map,
         Put(k, r), maps' = maps
  PROVE  Stored(h, k, r.status, Content(r))
<1>1. Shape
  BY DEF Busily, Core
<1>2. Touches(k)
  <2>1. DOMAIN store' = DOMAIN store \cup {k} /\ \A l \in DOMAIN store : l # k => store'[l] = store[l]
    BY PutIs
  <2> QED BY <2>1 DEF Touches, Content
<1>3. MapOf(h, k) /\ k \in DOMAIN store' /\ store'[k] = r
  BY PutIs DEF MapOf
<1>4. StoreOK'
  BY PutStoreOK
<1>5. maps' = [m \in Map |-> maps'[m]]
  BY <1>1 DEF Shape
<1> QED BY <1>2, <1>3, <1>4, <1>5 DEF Stored, Written, Content

\* A Delete takes one record and clears no map but that record's.
LEMMA DeleteTouches ==
  ASSUME Shape, Apart, NEW k, Delete(k)
  PROVE  /\ Touches(k) /\ k \notin DOMAIN store' /\ DOMAIN store' \subseteq DOMAIN store
         /\ maps' = [m \in Map |-> maps'[m]]
<1>1. DOMAIN store' = DOMAIN store \ {k} /\ \A l \in DOMAIN store' : store'[l] = store[l]
  BY DEF Delete, Without, Restrict
<1>2. \A l \in DOMAIN store : store[l].map # NilMap => store[l].map \in Map
  BY DEF Shape, StoreOK, RecordOK, Records
<1>3. maps' = [m \in Map |-> IF /\ k \in DOMAIN store /\ store[k].map = m
                                /\ \A h \in Handler : req[h].copy.map # m
                             THEN {} ELSE maps[m]]
  BY DEF Delete
<1>4. \A l \in DOMAIN store : l # k /\ store[l].map # NilMap => maps'[store[l].map] = maps[store[l].map]
  BY <1>2, <1>3 DEF Apart
<1>5. Touches(k)
  BY <1>1, <1>4 DEF Touches, Content
<1> QED BY <1>1, <1>3, <1>5

LEMMA DeleteRemoves ==
  ASSUME NEW h, NEW k, Busily(h, k), Delete(k)
  PROVE  Removed(h, k)
<1>1. Shape /\ Apart /\ workload' = workload
  BY DEF Busily, Core
<1>2. DOMAIN store' = DOMAIN store \ {k} /\ \A l \in DOMAIN store' : store'[l] = store[l]
  BY DEF Delete, Without, Restrict
<1>3. StoreOK'
  BY <1>1, <1>2 DEF Shape, StoreOK, InWorkload, RecordOK
<1> QED BY <1>1, <1>2, <1>3, DeleteTouches DEF Removed, Written, MapOf
-----------------------------------------------------------------------------
(* Answers.                                                                 *)
\* To a request that is alone, what was promised is what is there, and so is what it has read.
LEMMA QuietNow ==
  ASSUME NEW h, NEW k, Busily(h, k), req[h].alone, said[SubjectOf(k)] # Unknown
  PROVE  /\ said[SubjectOf(k)] = View(SubjectOf(k)) /\ Single(SubjectOf(k))
         /\ workload # "buckets" => OnlyOne(k)
         /\ req[h].op \in Copiers => k \in DOMAIN store /\ store[k] = req[h].copy
         /\ req[h].op \in RuleOps => req[h].read = List(k, req[h].field)
<1>1. Quiet(SubjectOf(k))
  BY BusyNow DEF Quiet, Busy
<1>2. UpToDate(h) /\ ~At(h, "idle") /\ k = Key(h)
  BY DEF Busily, Core
<1> QED BY <1>1, <1>2, BusyNow DEF Busily, Core, Kept, UpToDate, OnlyOne, Present

\* An answer raises no flag.
LEMMA AnswerOnly ==
  ASSUME NEW h, NEW promise, Answer(h, promise)
  PROVE  Answers(h, promise) /\ raced' = raced
  BY DEF Answer, Answers

\* What is there afterwards.
LEMMA ViewPut ==
  ASSUME NEW h, NEW k, NEW status, NEW content, Stored(h, k, status, content)
  PROVE  View(SubjectOf(k))' = Over(Only(k, [status |-> status, content |-> content]), View(SubjectOf(k)))
<1>1. PICK s : s = SubjectOf(k)
  OBVIOUS
<1>2. Listed(s)' = Listed(s) \cup {k}
  BY <1>1 DEF Stored, Written, Touches, Listed
<1>3. \A l \in Listed(s) : l # k => store'[l] = store[l] /\ Content(store[l])' = Content(store[l])
  BY DEF Stored, Written, Touches, Listed
<1>4. store'[k].status = status /\ Content(store[k])' = content
  BY DEF Stored
<1> QED BY <1>1, <1>2, <1>3, <1>4 DEF View, Over, Only

LEMMA ViewPutAlone ==
  ASSUME NEW h, NEW k, NEW content, Stored(h, k, "available", content), OnlyOne(k)
  PROVE  View(SubjectOf(k))' = Record(k, content) /\ Listed(SubjectOf(k))' = {k}
<1>1. Listed(SubjectOf(k))' = {k}
  BY DEF Stored, Written, Touches, Listed, OnlyOne
<1> QED BY <1>1, ViewOfOne DEF Stored

\* What is there after a Delete.
LEMMA ViewDrop ==
  ASSUME NEW h, NEW k, Removed(h, k), NEW s, s = SubjectOf(k)
  PROVE  /\ View(s)' = Restrict(View(s), DOMAIN View(s) \ {k})
         /\ Listed(s)' = Listed(s) \ {k}
<1>1. Listed(s)' = Listed(s) \ {k}
  BY DEF Removed, Written, Touches, Listed
<1>2. \A l \in Listed(s) : l # k => store'[l] = store[l] /\ Content(store[l])' = Content(store[l])
  BY DEF Removed, Written, Touches, Listed
<1> QED BY <1>1, <1>2 DEF View, Restrict

\* Nothing is changed.
LEMMA ReplyKeeps ==
  ASSUME NEW h, NEW k, Busily(h, k), NEW promise, promise = Promised(h), Answer(h, promise), UNCHANGED <<store, maps>>
  PROVE  Core'
<1>1. Shape /\ workload' = workload
  BY DEF Busily, Core
<1>2. Touches(k) /\ MapOf(h, k) /\ StoreOK' /\ maps' = [m \in Map |-> maps'[m]]
  BY <1>1 DEF Touches, MapOf, Content, Shape, StoreOK, InWorkload, RecordOK
<1>3. promise = said[SubjectOf(k)]
  BY BusyNow DEF Promised
<1>4. View(SubjectOf(k))' = View(SubjectOf(k)) /\ Single(SubjectOf(k))' = Single(SubjectOf(k))
  BY DEF View, Single, Listed, Content
<1>5. req[h].alone /\ said[SubjectOf(k)] # Unknown => promise = View(SubjectOf(k))' /\ Single(SubjectOf(k))'
  BY <1>3, <1>4, QuietNow
<1> QED BY <1>2, <1>5, AnswerOnly, WriteKeeps

\* A new record, the only one of its name.
LEMMA InsertKeeps ==
  ASSUME NEW h, NEW k, Busily(h, k), workload # "buckets",
         NEW content, Stored(h, k, "available", content), Answer(h, Record(k, content))
  PROVE  Core'
<1>1. req[h].alone /\ said[SubjectOf(k)] # Unknown =>
        Record(k, content) = View(SubjectOf(k))' /\ Single(SubjectOf(k))'
  BY QuietNow, ViewPutAlone DEF Single
<1> QED BY <1>1, AnswerOnly, WriteKeeps DEF Stored, Written

\* So does the second step of CreateUser, CreatePolicy and CreateRole.
LEMMA InsertNamedKeeps ==
  ASSUME NEW h, NEW k, Busily(h, k), workload # "buckets", NEW op, InsertNamed(h, op)
  PROVE  Core' /\ Stored(h, k, "available", {}) /\ Answer(h, Record(k, {}))
<1>1. PutBare(k) /\ Answer(h, Record(k, {}))
  BY DEF InsertNamed, Busily
<1> QED BY <1>1, PutBareStores, InsertKeeps

\* The only record of its name goes.
LEMMA DropKeeps ==
  ASSUME NEW h, NEW k, Busily(h, k), workload # "buckets", Delete(k), Answer(h, Gone)
  PROVE  Core' /\ Removed(h, k)
<1>1. Removed(h, k)
  BY DeleteRemoves
<1>2. OnlyOne(k) => Listed(SubjectOf(k))' = {}
  BY <1>1, ViewDrop DEF OnlyOne
<1>3. req[h].alone /\ said[SubjectOf(k)] # Unknown =>
        Gone = View(SubjectOf(k))' /\ Single(SubjectOf(k))'
  BY <1>2, QuietNow, ViewOfNone DEF Single
<1> QED BY <1>1, <1>3, AnswerOnly, WriteKeeps DEF Removed, Written

\* The record goes, and others of its name may stay.
LEMMA RemoveKeeps ==
  ASSUME NEW h, NEW k, Busily(h, k), Delete(k), NEW promise, promise = Without(Promised(h), k), Answer(h, promise)
  PROVE  Core' /\ Removed(h, k)
<1>1. Removed(h, k)
  BY DeleteRemoves
<1>2. PICK old : old = said[SubjectOf(k)]
  OBVIOUS
<1>3. promise = Restrict(old, DOMAIN old \ {k})
  BY <1>2, BusyNow DEF Promised, Without
<1>4. Answers(h, promise)
  BY AnswerOnly
<1>5. req[h].alone /\ said[SubjectOf(k)] # Unknown => promise = View(SubjectOf(k))' /\ Single(SubjectOf(k))'
  <2> HAVE req[h].alone /\ said[SubjectOf(k)] # Unknown
  <2>1. old = View(SubjectOf(k)) /\ Single(SubjectOf(k))
    BY <1>2, QuietNow
  <2> QED BY <1>1, <1>3, <2>1, ViewDrop DEF Single
<1> QED BY <1>1, <1>4, <1>5, WriteKeeps DEF Removed, Written

\* The answer promises the record as it is now, and what else there is of its name.
LEMMA ModifyKeeps ==
  ASSUME NEW h, NEW k, Busily(h, k), NEW status, NEW content, Stored(h, k, status, content),
         NEW promise, Answer(h, promise),
         req[h].alone /\ said[SubjectOf(k)] # Unknown =>
           /\ promise = Over(Only(k, [status |-> status, content |-> content]), said[SubjectOf(k)])
           /\ workload = "buckets" \/ k \in DOMAIN store
  PROVE  Core'
<1>1. req[h].alone /\ said[SubjectOf(k)] # Unknown => promise = View(SubjectOf(k))' /\ Single(SubjectOf(k))'
  <2> HAVE req[h].alone /\ said[SubjectOf(k)] # Unknown
  <2>1. said[SubjectOf(k)] = View(SubjectOf(k))
    BY QuietNow
  <2>2. promise = View(SubjectOf(k))'
    BY <2>1, ViewPut
  <2>3. Listed(SubjectOf(k))' = Listed(SubjectOf(k)) \cup {k}
    BY DEF Stored, Written, Touches, Listed
  <2>4. CASE workload = "buckets"
    <3>1. k \in BucketKeys
      BY <2>4, BusyNow DEF InWorkload
    <3>2. SubjectOf(k)[1] = "bucket"
      BY <3>1, Kinds DEF SubjectOf
    <3> QED BY <2>2, <3>2 DEF Single
  <2>5. CASE workload # "buckets"
    BY <2>2, <2>3, <2>5, QuietNow DEF Single, OnlyOne
  <2> QED BY <2>4, <2>5
<1> QED BY <1>1, AnswerOnly, WriteKeeps DEF Stored, Written
-----------------------------------------------------------------------------
(* The common ways in which services create and delete.                     *)
Shown == UNCHANGED <<store, req, raced>>

\* A handler that is somewhere in an operation works on the key of its request.
LEMMA Going ==
  ASSUME Calmly, NEW h \in Handler, NEW op, At(h, op), op # "idle"
  PROVE  Busily(h, Key(h))
  BY DEF Calmly, Busily, At

\* A request of one key, perhaps with what it refers to.
LEMMA BeginKey ==
  ASSUME Calmly, NEW h \in Handler, NEW k, InWorkload(k), NEW op, op \notin Copiers \cup {"idle"},
         Begin(h, op, SubjectOf(k), [key |-> k]),
         said[SubjectOf(k)] # Unknown /\ Busy(SubjectOf(k)) = {} /\ workload # "buckets" => OnlyOne(k)
  PROVE  Core' /\ Begun(h, op, k, Nobody)
<1>1. PICK fields : fields = [key |-> k]
  OBVIOUS
<1>2. DOMAIN fields = {"key"} /\ fields["key"] = k /\ Begin(h, op, SubjectOf(k), fields)
  BY <1>1
<1>3. Given(fields, "ref", Nobody) = Nobody
  BY <1>2 DEF Given
<1> QED BY <1>2, <1>3, BeginKeeps

LEMMA BeginRef ==
  ASSUME Calmly, NEW h \in Handler, NEW k, InWorkload(k), NEW op, op \notin Copiers \cup {"idle"}, NEW ref,
         Begin(h, op, SubjectOf(k), [key |-> k, ref |-> ref]), Unique(k)
  PROVE  Core' /\ Begun(h, op, k, ref)
<1>1. PICK fields : fields = [key |-> k, ref |-> ref]
  OBVIOUS
<1>2. /\ DOMAIN fields = {"key", "ref"} /\ fields["key"] = k /\ fields["ref"] = ref
      /\ Begin(h, op, SubjectOf(k), fields)
  BY <1>1
<1>3. Given(fields, "ref", Nobody) = ref
  BY <1>2 DEF Given
<1>4. OnlyOne(k)
  BY OneKey
<1> QED BY <1>2, <1>3, <1>4, BeginKeeps

\* The four steps of a service that creates and deletes by name.
LEMMA CreateNamedKeeps ==
  ASSUME Calmly, NEW h \in Handler, NEW k, InWorkload(k), Unique(k), NEW op, op \notin Copiers \cup {"idle"},
         CreateNamed(h, op, k)
  PROVE  Core' /\ (Shown \/ Begun(h, op, k, Nobody))
<1>1. CASE Present(k) /\ Shows({SubjectOf(k)})
  BY <1>1, ShowsKeeps DEF Shown, Shows
<1>2. CASE ~Present(k) /\ Begin(h, op, SubjectOf(k), [key |-> k])
  BY <1>2, OneKey, BeginKey
<1> QED BY <1>1, <1>2 DEF CreateNamed

LEMMA RemoveNamedKeeps ==
  ASSUME Calmly, NEW h \in Handler, NEW k, InWorkload(k), Unique(k), NEW op, op \notin Copiers \cup {"idle"},
         RemoveNamed(h, op, k)
  PROVE  Core' /\ (Shown \/ (Present(k) /\ Begun(h, op, k, Nobody)))
<1>1. CASE ~Present(k) /\ Shows({SubjectOf(k)})
  BY <1>1, ShowsKeeps DEF Shown, Shows
<1>2. CASE Present(k) /\ Begin(h, op, SubjectOf(k), [key |-> k])
  BY <1>2, OneKey, BeginKey
<1> QED BY <1>1, <1>2 DEF RemoveNamed

LEMMA InsertNamedDone ==
  ASSUME Calmly, workload # "buckets", NEW h \in Handler, NEW op, op # "idle", InsertNamed(h, op)
  PROVE  Core' /\ Stored(h, Key(h), "available", {}) /\ Answer(h, Record(Key(h), {}))
<1>1. PICK k : k = Key(h)
  OBVIOUS
<1>2. Busily(h, k)
  BY <1>1, Going DEF InsertNamed
<1> QED BY <1>1, <1>2, InsertNamedKeeps

LEMMA DropNamedDone ==
  ASSUME Calmly, workload # "buckets", NEW h \in Handler, NEW op, op # "idle", DropNamed(h, op)
  PROVE  Core' /\ Removed(h, Key(h)) /\ Answer(h, Gone)
<1>1. PICK k : k = Key(h)
  OBVIOUS
<1>2. Busily(h, k) /\ Delete(k) /\ Answer(h, Gone)
  BY <1>1, Going DEF DropNamed
<1> QED BY <1>1, <1>2, DropKeeps

\* A request that only answers, and one that only goes on.
LEMMA ReplyDone ==
  ASSUME Calmly, NEW h \in Handler, NEW op, op # "idle", At(h, op), Answer(h, Promised(h)), UNCHANGED <<store, maps>>
  PROVE  Core'
<1>1. PICK k : k = Key(h)
  OBVIOUS
<1>2. PICK promise : promise = Promised(h)
  OBVIOUS
<1> QED BY <1>1, <1>2, Going, ReplyKeeps

LEMMA GotoDone ==
  ASSUME Calmly, NEW h \in Handler, NEW from, from \notin Copiers \cup {"idle"}, At(h, from),
         NEW to, to \notin Copiers \cup {"idle"}, Goto(h, to), UNCHANGED <<store, maps>>
  PROVE  Core' /\ Turned(h, to)
<1>1. PICK k : k = Key(h)
  OBVIOUS
<1> QED BY <1>1, Going, GotoKeeps DEF At
-----------------------------------------------------------------------------
(* Users and policies, SQS, key pairs.                                      *)
\* No operation on users and policies makes an answer untrue.
LEMMA NameKeeps ==
  ASSUME Calmly, workload = "names", NEW h \in Handler, NameStep(h)
  PROVE  Core'
<1>1. \A n \in UserName : InWorkload(UserKey(n)) /\ Unique(UserKey(n))
  BY Kinds DEF InWorkload, NameKeys
<1>2. \A n \in PolicyName : InWorkload(PolicyKey(n)) /\ Unique(PolicyKey(n))
  BY Kinds DEF InWorkload, NameKeys
<1>3. {"createUser", "createPolicy", "deleteUser", "deletePolicy"} \cap (Copiers \cup {"idle"}) = {}
  BY DEF Copiers
<1>4. CASE createUser(h)
  BY <1>1, <1>3, <1>4, InsertNamedDone, CreateNamedKeeps DEF createUser
<1>5. CASE createPolicy(h)
  BY <1>2, <1>3, <1>5, InsertNamedDone, CreateNamedKeeps DEF createPolicy
<1>6. CASE deleteUser(h)
  BY <1>1, <1>3, <1>6, DropNamedDone, RemoveNamedKeeps DEF deleteUser
<1>7. CASE deletePolicy(h)
  BY <1>2, <1>3, <1>7, DropNamedDone, RemoveNamedKeeps DEF deletePolicy
<1> QED BY <1>4, <1>5, <1>6, <1>7 DEF NameStep

\* DeleteResourceHandler of the admin API: of whatever service the record is.
LEMMA AdminKeeps ==
  ASSUME Calmly, NEW h \in Handler, DeleteResourceHandler(h)
  PROVE  /\ Core'
         /\ \/ \E k \in DOMAIN store : Begun(h, "adminDelete", k, Nobody)
            \/ /\ At(h, "adminDelete") /\ Removed(h, Key(h)) /\ req' = [req EXCEPT ![h] = Idle]
               /\ raced' = raced /\ (Present(Key(h)) => Key(h) \in taken')
<1>1. CASE \E k \in DOMAIN store : Begin(h, "adminDelete", SubjectOf(k), [key |-> k])
  <2>1. PICK k \in DOMAIN store : Begin(h, "adminDelete", SubjectOf(k), [key |-> k])
    BY <1>1
  <2>2. InWorkload(k)
    BY DEF Calmly, Core, Shape, StoreOK
  <2>3. said[SubjectOf(k)] # Unknown /\ Busy(SubjectOf(k)) = {} /\ workload # "buckets" => OnlyOne(k)
    BY <2>2, OneKey DEF Present
  <2>4. "adminDelete" \notin Copiers \cup {"idle"}
    BY DEF Copiers
  <2> QED BY <2>1, <2>2, <2>3, <2>4, BeginKey
<1>2. CASE /\ At(h, "adminDelete")
           /\ Delete(Key(h))
           /\ Answer(h, Without(Promised(h), Key(h)))
           /\ taken' = taken \cup ({Key(h)} \cap DOMAIN store)
  <2>1. PICK k, promise : k = Key(h) /\ promise = Without(Promised(h), k)
    OBVIOUS
  <2>2. Busily(h, k)
    BY <1>2, <2>1, Going
  <2>3. Delete(k) /\ Answer(h, promise)
    BY <1>2, <2>1
  <2>4. Core' /\ Removed(h, k)
    BY <2>1, <2>2, <2>3, RemoveKeeps
  <2>5. req' = [req EXCEPT ![h] = Idle] /\ raced' = raced
    BY <2>3 DEF Answer
  <2> QED BY <1>2, <2>1, <2>4, <2>5 DEF Present
<1> QED BY <1>1, <1>2 DEF DeleteResourceHandler

\* A queue is deleted without looking for it first.
LEMMA AtOnceKeeps ==
  ASSUME Calmly, NEW k, InWorkload(k), Unique(k), Delete(k), AtOnce(SubjectOf(k), Gone)
  PROVE  Core'
<1>1. PICK s \in Subject : s = SubjectOf(k)
  BY InKeys
<1>2. Core /\ Shape /\ Apart /\ Solo /\ Kept /\ workload' = workload
  BY DEF Calmly, Core
<1>3. Touches(k) /\ k \notin DOMAIN store' /\ DOMAIN store' \subseteq DOMAIN store /\ maps' = [m \in Map |-> maps'[m]]
  BY <1>2, DeleteTouches
<1>4. \A l \in DOMAIN store' : store'[l] = store[l]
  BY <1>3 DEF Touches
<1>5. req' = Marked(s) /\ said' = [t \in Subject |-> IF t = s THEN IF Busy(s) = {} THEN Gone ELSE Unknown ELSE said[t]]
  BY <1>1, <1>2 DEF AtOnce, Shape
<1>6. req' = [g \in Handler |-> req'[g]] /\ \A g \in Handler : MarkedFor(g, s)
  BY <1>2, <1>5, MarkedIs DEF MarkedFor
<1>7. Shape'
  <2>1. StoreOK'
    BY <1>2, <1>3, <1>4 DEF Shape, StoreOK, InWorkload, RecordOK
  <2>2. said' = [t \in Subject |-> said'[t]]
    BY <1>5
  <2> QED BY <1>3, <1>6, <2>1, <2>2, MarkedOK DEF Shape
<1>8. Apart'
  <2>1. \A g \in Handler : req'[g].copy = req[g].copy /\ req'[g].key = req[g].key
    BY <1>6 DEF MarkedFor, MarkedAs, Same
  <2> QED BY <1>2, <1>3, <1>4, <2>1 DEF Apart, Key
<1>9. Solo'
  <2>1. \A g \in Handler : /\ req'[g].subject = req[g].subject
                           /\ req[g].subject = s => ~req'[g].alone
                           /\ req[g].subject # s => req'[g].alone = req[g].alone
    BY <1>6 DEF MarkedFor, MarkedAs, Same
  <2> QED BY <1>2, <2>1 DEF Solo
<1>10. Kept'
  <2> SUFFICES ASSUME NEW t \in Subject, Quiet(t)' PROVE said'[t] = View(t)' /\ Single(t)'
    BY DEF Kept
  <2>1. CASE t = s
    <3>1. OnlyOne(k)
      BY OneKey
    <3>2. Listed(s)' = {}
      BY <1>1, <1>3, <3>1 DEF OnlyOne, Listed
    <3>3. said'[s] = Gone
      BY <1>5, <2>1 DEF Quiet
    <3> QED BY <2>1, <3>2, <3>3, ViewOfNone DEF Single
  <2>2. CASE t # s
    <3>1. \A g \in Busy(t) : req'[g] = req[g]
      BY <1>6, <2>2 DEF Busy, MarkedFor, MarkedAs
    <3>2. Quiet(t) /\ said'[t] = said[t]
      BY <1>5, <2>2, <3>1 DEF Quiet, Busy
    <3>3. said[t] = View(t) /\ Single(t)
      BY <1>2, <3>2 DEF Kept
    <3> QED BY <1>1, <1>3, <2>2, <3>2, <3>3, Elsewhere DEF Single
  <2> QED BY <2>1, <2>2
<1>11. ASSUME NEW g \in Handler PROVE UpToDate(g)'
  <2>1. CASE req[g].subject = s
    BY <1>6, <2>1 DEF MarkedFor, MarkedAs, UpToDate
  <2>2. CASE req[g].subject # s
    <3>1. req'[g] = req[g]
      BY <1>6, <2>2 DEF MarkedFor, MarkedAs
    <3>2. CASE At(g, "idle")
      BY <3>1, <3>2 DEF UpToDate, At
    <3>3. CASE ~At(g, "idle")
      <4>1. req[g].subject \in Subject
        BY <1>2, <3>3, InKeys, Blanks DEF At, Shape, TaskOK
      <4>2. said'[req[g].subject] = said[req[g].subject]
        BY <1>5, <2>2, <4>1
      <4> QED BY <1>1, <1>2, <1>3, <2>2, <3>1, <3>3, <4>2, FarUpToDate
    <3> QED BY <3>2, <3>3
  <2> QED BY <2>1, <2>2
<1> QED BY <1>7, <1>8, <1>9, <1>10, <1>11 DEF Core

\* What is promised by name of a record that is promised.
LEMMA PromiseOne ==
  ASSUME NEW h, NEW k, Busily(h, k), req[h].alone, said[SubjectOf(k)] # Unknown, workload # "buckets",
         k \in DOMAIN store
  PROVE  /\ DOMAIN Promised(h) = {k} /\ Promised(h) = said[SubjectOf(k)]
         /\ Promised(h)[k] = [status |-> store[k].status, content |-> Content(store[k])]
         /\ PromisedContent(h) = Content(store[k])
<1>1. said[SubjectOf(k)] = View(SubjectOf(k)) /\ OnlyOne(k)
  BY QuietNow
<1>2. Listed(SubjectOf(k)) = {k}
  BY <1>1 DEF OnlyOne, Listed
<1>3. Promised(h) = View(SubjectOf(k)) /\ Key(h) = k
  BY <1>1, BusyNow DEF Promised, Busily
<1>4. /\ DOMAIN View(SubjectOf(k)) = {k}
      /\ View(SubjectOf(k))[k] = [status |-> store[k].status, content |-> Content(store[k])]
  BY <1>2 DEF View
<1> QED BY <1>1, <1>3, <1>4 DEF PromisedContent

\* A request that begins with a copy of the record.
LEMMA BeginCopy ==
  ASSUME Calmly, workload # "buckets", NEW h \in Handler, NEW k, InWorkload(k), NEW op \in Copiers \ RuleOps,
         Present(k), NEW arg,
         Begin(h, op, SubjectOf(k), [key |-> k, copy |-> store[k], arg |-> arg])
  PROVE  Core'
<1>1. PICK copy : copy = store[k]
  OBVIOUS
<1>2. PICK fields : fields = [key |-> k, copy |-> copy, arg |-> arg]
  OBVIOUS
<1>3. DOMAIN fields = {"key", "copy", "arg"} /\ fields["key"] = k /\ fields["copy"] = copy
  BY <1>2
<1>4. Begin(h, op, SubjectOf(k), fields)
  BY <1>1, <1>2
<1>5. said[SubjectOf(k)] # Unknown /\ Busy(SubjectOf(k)) = {} /\ workload # "buckets" => OnlyOne(k)
  BY OneKey
<1> QED BY <1>1, <1>3, <1>4, <1>5, BeginCopyKeeps

\* A request that is alone knows what was promised: it is what it has copied.
LEMMA PromiseCopy ==
  ASSUME NEW h, NEW k, Busily(h, k), req[h].alone, said[SubjectOf(k)] # Unknown, workload # "buckets",
         req[h].op \in Copiers
  PROVE  /\ k \in DOMAIN store /\ DOMAIN Promised(h) = {k} /\ Promised(h) = said[SubjectOf(k)]
         /\ Promised(h)[k] = [status |-> req[h].copy.status, content |-> Content(req[h].copy)]
         /\ PromisedContent(h) = Content(req[h].copy)
<1>1. k \in DOMAIN store /\ store[k] = req[h].copy
  BY QuietNow
<1> QED BY <1>1, PromiseOne


\* A record over one that has the same key replaces it.
LEMMA OverOne ==
  ASSUME NEW k, NEW v, NEW f, DOMAIN f \subseteq {k}
  PROVE  Over(Only(k, v), f) = Only(k, v)
  BY DEF Over, Only

\* The map of the only record of its name is written.
LEMMA ModifyOne ==
  ASSUME NEW h, NEW k, Busily(h, k), workload \notin {"buckets", "tags"}, req[h].op \in Copiers,
         NEW content, PutCopy(h, content), NEW told, Answer(h, Record(k, told)),
         req[h].alone /\ said[SubjectOf(k)] # Unknown => told = content
  PROVE  Core'
<1>1. req[h].copy.status = "available"
  BY DEF Busily, Core, Shape, TaskOK, RecordOK
<1>2. Stored(h, k, "available", content)
  BY <1>1, PutCopyStores
<1>3. req[h].alone /\ said[SubjectOf(k)] # Unknown =>
        Record(k, told) = Over(Only(k, [status |-> "available", content |-> content]), said[SubjectOf(k)])
        /\ k \in DOMAIN store
  <2> HAVE req[h].alone /\ said[SubjectOf(k)] # Unknown
  <2>1. k \in DOMAIN store /\ told = content
    BY QuietNow
  <2>2. DOMAIN said[SubjectOf(k)] = {k}
    BY <2>1, PromiseOne
  <2> QED BY <2>1, <2>2, OverOne DEF Record
<1> QED BY <1>2, <1>3, ModifyKeeps

\* No operation on queues makes an answer untrue.
LEMMA SqsKeeps ==
  ASSUME Calmly, workload = "sqs", NEW h \in Handler, SqsStep(h)
  PROVE  Core'
<1>1. \A n \in QueueName : InWorkload(QueueKey(n)) /\ Unique(QueueKey(n))
  BY Kinds DEF InWorkload, QueueKeys
<1>2. PICK j : j = Key(h)
  OBVIOUS
<1>3. PICK arg : arg = req[h].arg
  OBVIOUS
<1>4. CASE createQueue(h)
  <2>1. CASE \E n \in QueueName, tags \in SUBSET QueueTag :
               LET k == QueueKey(n) IN
               IF Present(k) THEN Shows({SubjectOf(k)})
                             ELSE Begin(h, "createQueue", SubjectOf(k), [key |-> k, arg |-> tags])
    <3>1. PICK n \in QueueName, tags \in SUBSET QueueTag :
               IF Present(QueueKey(n)) THEN Shows({SubjectOf(QueueKey(n))})
               ELSE Begin(h, "createQueue", SubjectOf(QueueKey(n)), [key |-> QueueKey(n), arg |-> tags])
      BY <2>1
    <3>2. PICK k : k = QueueKey(n)
      OBVIOUS
    <3>3. PICK fields : fields = [key |-> k, arg |-> tags]
      OBVIOUS
    <3>4. CASE Shows({SubjectOf(QueueKey(n))})
      BY <3>4, ShowsKeeps
    <3>5. CASE Begin(h, "createQueue", SubjectOf(k), fields)
      <4>1. DOMAIN fields = {"key", "arg"} /\ fields["key"] = k
        BY <3>3
      <4>2. OnlyOne(k)
        BY <1>1, <3>2, OneKey
      <4>3. "createQueue" \notin Copiers \cup {"idle"}
        BY DEF Copiers
      <4> QED BY <1>1, <3>2, <3>5, <4>1, <4>2, <4>3, BeginKeeps
    <3> QED BY <3>1, <3>2, <3>3, <3>4, <3>5
  <2>2. CASE /\ At(h, "createQueue")
             /\ IF req[h].arg = {} THEN PutBare(Key(h)) ELSE PutNew(Key(h), req[h].arg)
             /\ Answer(h, Record(Key(h), req[h].arg))
    <3>1. Busily(h, j)
      BY <1>2, <2>2, Going
    <3>2. Stored(h, j, "available", arg)
      BY <1>2, <1>3, <2>2, <3>1, PutBareStores, PutNewStores
    <3> QED BY <1>2, <1>3, <2>2, <3>1, <3>2, InsertKeeps
  <2> QED BY <1>4, <2>1, <2>2 DEF createQueue
<1>5. CASE deleteQueue
  <2>1. PICK n \in QueueName : Delete(QueueKey(n)) /\ AtOnce(SubjectOf(QueueKey(n)), Gone)
    BY <1>5 DEF deleteQueue
  <2> QED BY <1>1, <2>1, AtOnceKeeps
<1>6. CASE tagQueue(h)
  <2>1. "tagQueue" \in Copiers \ RuleOps
    BY DEF Copiers, RuleOps
  <2>2. ASSUME NEW n \in QueueName, NEW tags,
               IF Present(QueueKey(n))
               THEN Begin(h, "tagQueue", SubjectOf(QueueKey(n)),
                          [key |-> QueueKey(n), copy |-> store[QueueKey(n)], arg |-> tags])
               ELSE Shows({SubjectOf(QueueKey(n))})
        PROVE  Core'
    BY <1>1, <2>1, <2>2, ShowsKeeps, BeginCopy
  <2>3. CASE /\ At(h, "tagQueue")
             /\ PutCopy(h, Content(req[h].copy) \cup req[h].arg)
             /\ Answer(h, Record(Key(h), PromisedContent(h) \cup req[h].arg))
    <3>1. Busily(h, j) /\ req[h].op \in Copiers
      BY <1>2, <2>1, <2>3, Going DEF At
    <3>2. PICK content : content = Content(req[h].copy) \cup req[h].arg
      OBVIOUS
    <3>3. PICK told : told = PromisedContent(h) \cup req[h].arg
      OBVIOUS
    <3>4. req[h].alone /\ said[SubjectOf(j)] # Unknown => told = content
      BY <3>1, <3>2, <3>3, PromiseCopy
    <3> QED BY <1>2, <2>3, <3>1, <3>2, <3>3, <3>4, ModifyOne
  <2> QED BY <1>6, <2>2, <2>3 DEF tagQueue
<1> QED BY <1>4, <1>5, <1>6 DEF SqsStep

\* No operation on key pairs makes an answer untrue.
LEMMA PairKeeps ==
  ASSUME Calmly, workload = "keypairs", NEW h \in Handler, KeyPairStep(h)
  PROVE  Core'
<1>1. \A n \in KeyName, i \in KeyPairId : InWorkload(PairKey(n, i)) /\ SubjectOf(PairKey(n, i)) = PairSubject(n)
  BY DEF InWorkload, PairKeys, PairKey, PairSubject, SubjectOf
<1>2. PICK j : j = Key(h)
  OBVIOUS
<1>3. {"createPair", "importPair", "deletePair"} \cap (Copiers \cup {"idle"}) = {}
  BY DEF Copiers
<1>4. ASSUME NEW op \in {"createPair", "importPair"}, NewPair(h, op) PROVE Core'
  <2>1. CASE \E n \in KeyName, i \in KeyPairId \ drawn :
               IF Listed(PairSubject(n)) = {}
               THEN /\ Begin(h, op, PairSubject(n), [key |-> PairKey(n, i)])
                    /\ drawn' = drawn \cup {i}
               ELSE Shows({PairSubject(n)}) /\ UNCHANGED drawn
    <3>1. PICK n \in KeyName, i \in KeyPairId :
               \/ Shows({PairSubject(n)})
               \/ Listed(PairSubject(n)) = {} /\ Begin(h, op, PairSubject(n), [key |-> PairKey(n, i)])
      BY <2>1
    <3>2. PICK k : k = PairKey(n, i)
      OBVIOUS
    <3>3. CASE Listed(PairSubject(n)) = {} /\ Begin(h, op, PairSubject(n), [key |-> PairKey(n, i)])
      <4>1. OnlyOne(k)
        BY <1>1, <3>2, <3>3 DEF OnlyOne
      <4> QED BY <1>1, <1>3, <1>4, <3>2, <3>3, <4>1, BeginKey
    <3> QED BY <3>1, <3>3, ShowsKeeps
  <2>2. CASE At(h, op) /\ PutBare(Key(h)) /\ Answer(h, Record(Key(h), {}))
    <3>1. Busily(h, j)
      BY <1>2, <1>3, <1>4, <2>2, Going
    <3> QED BY <1>2, <2>2, <3>1, PutBareStores, InsertKeeps
  <2> QED BY <1>4, <2>1, <2>2 DEF NewPair
<1>5. CASE deleteKeyPair(h)
  <2>1. CASE \E n \in KeyName : Shows({PairSubject(n)})
    BY <2>1, ShowsKeeps
  <2>2. ASSUME NEW n \in KeyName, NEW k \in Listed(PairSubject(n)), Begin(h, "deletePair", PairSubject(n), [key |-> k])
        PROVE  Core'
    <3>1. SubjectOf(k) = PairSubject(n) /\ k \in DOMAIN store
      BY <2>2 DEF Listed
    <3>2. InWorkload(k)
      BY <3>1 DEF Calmly, Core, Shape, StoreOK
    <3>3. said[SubjectOf(k)] # Unknown /\ Busy(SubjectOf(k)) = {} /\ workload # "buckets" => OnlyOne(k)
      BY <3>1, <3>2, OneKey DEF Present
    <3> QED BY <1>3, <2>2, <3>1, <3>2, <3>3, BeginKey
  <2>3. CASE At(h, "deletePair") /\ Delete(Key(h)) /\ Answer(h, Gone)
    BY <1>2, <1>3, <2>3, Going, DropKeeps
  <2> QED BY <1>5, <2>1, <2>2, <2>3 DEF deleteKeyPair
<1> QED BY <1>4, <1>5 DEF KeyPairStep, createKeyPair, importKeyPair
-----------------------------------------------------------------------------
(* Tags of instances.                                                       *)
\* What was promised of an instance, with other tags or another status.
LEMMA PromiseBut ==
  ASSUME NEW h, NEW k, Busily(h, k), req[h].alone, said[SubjectOf(k)] # Unknown, workload # "buckets",
         req[h].op \in Copiers, NEW new, NEW promise, promise = [Promised(h) EXCEPT ![k].content = new]
  PROVE  promise = Only(k, [status |-> req[h].copy.status, content |-> new])
<1>1. PICK f : f = Promised(h)
  OBVIOUS
<1>2. f = View(SubjectOf(k))
  BY <1>1, PromiseCopy, QuietNow
<1>3. f = [x \in DOMAIN f |-> f[x]]
  BY <1>2 DEF View
<1>4. PICK r : r = [status |-> req[h].copy.status, content |-> Content(req[h].copy)]
  OBVIOUS
<1>5. DOMAIN f = {k} /\ f[k] = r
  BY <1>1, <1>4, PromiseCopy
<1>6. [r EXCEPT !.content = new] = [status |-> req[h].copy.status, content |-> new]
  BY <1>4
<1>7. [f EXCEPT ![k].content = new] = [x \in {k} |-> [r EXCEPT !.content = new]]
  BY <1>3, <1>5
<1> QED BY <1>1, <1>6, <1>7 DEF Only

LEMMA PromiseEnded ==
  ASSUME NEW h, NEW k, Busily(h, k), req[h].alone, said[SubjectOf(k)] # Unknown, workload # "buckets",
         req[h].op \in Copiers, NEW promise, promise = [Promised(h) EXCEPT ![k].status = "terminated"]
  PROVE  promise = Only(k, [status |-> "terminated", content |-> Content(req[h].copy)])
<1>1. PICK f : f = Promised(h)
  OBVIOUS
<1>2. f = View(SubjectOf(k))
  BY <1>1, PromiseCopy, QuietNow
<1>3. f = [x \in DOMAIN f |-> f[x]]
  BY <1>2 DEF View
<1>4. PICK r : r = [status |-> req[h].copy.status, content |-> Content(req[h].copy)]
  OBVIOUS
<1>5. DOMAIN f = {k} /\ f[k] = r
  BY <1>1, <1>4, PromiseCopy
<1>6. [r EXCEPT !.status = "terminated"] = [status |-> "terminated", content |-> Content(req[h].copy)]
  BY <1>4
<1>7. [f EXCEPT ![k].status = "terminated"] = [x \in {k} |-> [r EXCEPT !.status = "terminated"]]
  BY <1>3, <1>5
<1> QED BY <1>1, <1>6, <1>7 DEF Only

LEMMA ModifyTagged ==
  ASSUME NEW h, NEW k, Busily(h, k), workload = "tags", req[h].op \in Copiers,
         NEW status, NEW content, Stored(h, k, status, content), NEW promise, Answer(h, promise),
         req[h].alone /\ said[SubjectOf(k)] # Unknown =>
           promise = Only(k, [status |-> status, content |-> content])
  PROVE  Core'
<1>1. req[h].alone /\ said[SubjectOf(k)] # Unknown =>
        promise = Over(Only(k, [status |-> status, content |-> content]), said[SubjectOf(k)]) /\ k \in DOMAIN store
  <2> HAVE req[h].alone /\ said[SubjectOf(k)] # Unknown
  <2>1. k \in DOMAIN store /\ DOMAIN said[SubjectOf(k)] = {k}
    BY PromiseCopy
  <2> QED BY <2>1, OverOne
<1> QED BY <1>1, ModifyKeeps

LEMMA AnsweredKeeps ==
  ASSUME NEW h, NEW k, Busily(h, k), workload = "tags", req[h].op \in Copiers,
         NEW content, Stored(h, k, req[h].copy.status, content), NEW told, Answered(h, told),
         req[h].alone /\ said[SubjectOf(k)] # Unknown => told = content
  PROVE  Core'
<1>1. PICK promise : promise = [Promised(h) EXCEPT ![k].content = told]
  OBVIOUS
<1>2. Answer(h, promise)
  BY <1>1 DEF Answered, Busily
<1>3. req[h].alone /\ said[SubjectOf(k)] # Unknown =>
        promise = Only(k, [status |-> req[h].copy.status, content |-> content])
  BY <1>1, PromiseBut
<1> QED BY <1>2, <1>3, ModifyTagged

\* No operation on tags, and no termination, makes an answer untrue.
LEMMA TagsKeeps ==
  ASSUME Calmly, workload = "tags", NEW h \in Handler, TagsStep(h)
  PROVE  Core'
<1>1. \A i \in TaggedInstance : InWorkload(InstanceKey(i))
  BY DEF InWorkload, TaggedKeys
<1>2. {"createTags", "deleteTags", "terminate"} \subseteq Copiers \ RuleOps
  BY DEF Copiers, RuleOps
<1>3. ASSUME NEW op \in {"createTags", "deleteTags", "terminate"}, NEW tags, ReadInstance(h, op, tags)
      PROVE  Core'
  <2>1. PICK i \in TaggedInstance :
          IF Present(InstanceKey(i))
          THEN Begin(h, op, SubjectOf(InstanceKey(i)),
                     [key |-> InstanceKey(i), copy |-> store[InstanceKey(i)], arg |-> tags])
          ELSE Shows({SubjectOf(InstanceKey(i))})
    BY <1>3 DEF ReadInstance
  <2> QED BY <1>1, <1>2, <2>1, ShowsKeeps, BeginCopy
<1>4. PICK k : k = Key(h)
  OBVIOUS
<1>5. ASSUME NEW op \in {"createTags", "deleteTags", "terminate"}, At(h, op)
      PROVE  /\ Busily(h, k) /\ req[h].op \in Copiers
             /\ req[h].alone /\ said[SubjectOf(k)] # Unknown => PromisedContent(h) = Content(req[h].copy)
  <2>1. Busily(h, k) /\ req[h].op \in Copiers
    BY <1>2, <1>4, <1>5, Going DEF At
  <2> QED BY <2>1, PromiseCopy
<1>6. PICK arg, copy : arg = req[h].arg /\ copy = req[h].copy
  OBVIOUS
<1>7. CASE /\ At(h, "createTags")
           /\ PutCopy(h, Content(req[h].copy) \cup req[h].arg)
           /\ Answered(h, PromisedContent(h) \cup req[h].arg)
  <2>1. PICK content, told : content = Content(copy) \cup arg /\ told = PromisedContent(h) \cup arg
    OBVIOUS
  <2>2. PutCopy(h, content) /\ Answered(h, told)
    BY <1>6, <1>7, <2>1
  <2>3. Busily(h, k) /\ req[h].op \in Copiers /\ (req[h].alone /\ said[SubjectOf(k)] # Unknown => told = content)
    BY <1>5, <1>6, <1>7, <2>1
  <2> QED BY <2>2, <2>3, PutCopyStores, AnsweredKeeps
<1>8. CASE /\ At(h, "deleteTags")
           /\ IF req[h].copy.map = NilMap
              THEN Put(Key(h), req[h].copy) /\ UNCHANGED maps
              ELSE PutCopy(h, Content(req[h].copy) \ req[h].arg)
           /\ Answered(h, PromisedContent(h) \ req[h].arg)
  <2>1. PICK content, told : content = Content(copy) \ arg /\ told = PromisedContent(h) \ arg
    OBVIOUS
  <2>2. Answered(h, told)
    BY <1>6, <1>8, <2>1
  <2>3. Busily(h, k) /\ req[h].op \in Copiers /\ (req[h].alone /\ said[SubjectOf(k)] # Unknown => told = content)
    BY <1>5, <1>6, <1>8, <2>1
  <2>4. Stored(h, k, copy.status, content)
    <3>1. CASE copy.map = NilMap
      <4>1. Put(k, copy) /\ maps' = maps
        BY <1>4, <1>6, <1>8, <3>1
      <4>2. RecordOK(copy)
        BY <1>6, <2>3 DEF Busily, Core, Shape, TaskOK
      <4>3. content = Content(copy)
        BY <2>1, <3>1 DEF Content
      <4> QED BY <1>6, <2>3, <4>1, <4>2, <4>3, PutBackStores
    <3>2. CASE copy.map # NilMap
      <4>1. PutCopy(h, content)
        BY <1>6, <1>8, <2>1, <3>2
      <4> QED BY <1>6, <2>3, <4>1, PutCopyStores
    <3> QED BY <3>1, <3>2
  <2> QED BY <1>6, <2>2, <2>3, <2>4, AnsweredKeeps
<1>9. CASE /\ At(h, "terminate")
           /\ Put(Key(h), [req[h].copy EXCEPT !.status = "terminated"]) /\ UNCHANGED maps
           /\ Answer(h, [Promised(h) EXCEPT ![Key(h)].status = "terminated"])
  <2>1. Busily(h, k) /\ req[h].op \in Copiers
    BY <1>5, <1>9
  <2>2. PICK r : r = [copy EXCEPT !.status = "terminated"]
    OBVIOUS
  <2>3. RecordOK(copy)
    BY <1>6, <2>1 DEF Busily, Core, Shape, TaskOK
  <2>4. RecordOK(r) /\ r.map = copy.map /\ r.status = "terminated"
    BY <2>2, <2>3 DEF RecordOK, Records
  <2>5. Put(k, r) /\ maps' = maps
    BY <1>4, <1>6, <1>9, <2>2
  <2>6. Stored(h, k, "terminated", Content(copy))
    <3>1. Content(r) = Content(copy)
      BY <2>4 DEF Content
    <3>2. Stored(h, k, r.status, Content(r))
      BY <1>6, <2>1, <2>4, <2>5, PutBackStores
    <3> QED BY <2>4, <3>1, <3>2
  <2>7. PICK promise : promise = [Promised(h) EXCEPT ![k].status = "terminated"]
    OBVIOUS
  <2>8. Answer(h, promise)
    BY <1>4, <1>9, <2>7
  <2>9. req[h].alone /\ said[SubjectOf(k)] # Unknown =>
          promise = Only(k, [status |-> "terminated", content |-> Content(copy)])
    BY <1>6, <2>1, <2>7, PromiseEnded
  <2> QED BY <2>1, <2>6, <2>8, <2>9, ModifyTagged
<1> QED BY <1>3, <1>7, <1>8, <1>9 DEF TagsStep, createTags, deleteTags, terminateInstances
-----------------------------------------------------------------------------
(* What a step means to the records that refer to others.                   *)
Starts(op, k, ref) ==
  /\ op \notin Dropping /\ InWorkload(k)
  /\ IF op \in Referring THEN Child(k) /\ Present(Parent(k)) /\ ref = SubjectOf(Parent(k)) ELSE ref = Nobody
  /\ op \in Detaching => Child(k)
  /\ Child(k) => op \in ChildOps \cup {"adminDelete"}

Goes(h, op) ==
  \/ req[h].op \in Referring /\ op \in Referring
  \/ /\ req[h].op \notin ChildOps \cup {"adminDelete"} /\ op \in Dropping
     /\ req[h].op \in Dropping \/ \A k \in DOMAIN store : Child(k) => Parent(k) # Key(h)

Cleared(h) == h \in Handler /\ ~At(h, "idle") /\ req' = [req EXCEPT ![h] = Idle]

Effect(h) ==
  \/ Shown
  \/ \E op, k, ref : Begun(h, op, k, ref) /\ Starts(op, k, ref)
  \/ \E op : ~At(h, "idle") /\ Turned(h, op) /\ Goes(h, op)
  \/ Cleared(h) /\ UNCHANGED <<store, raced>>
  \/ /\ Cleared(h) /\ UNCHANGED raced
     /\ \E status, content : Stored(h, Key(h), status, content)
     /\ req[h].op \notin Detaching \cup {"adminDelete"}
  \/ /\ Cleared(h) /\ Removed(h, Key(h))
     /\ raced' = raced
     /\ req[h].op \in Dropping \cup Detaching \/ (Present(Key(h)) => Key(h) \in taken')

Done(h) == Core' /\ Effect(h)
Kinless == Copiers \cup ChildOps \cup Dropping \cup {"idle", "adminDelete"}

\* The steps a handler can take, as effects.
LEMMA ShowsDone ==
  ASSUME Calmly, NEW h \in Handler, NEW subjects, Shows(subjects)
  PROVE  Done(h)
<1>1. Core'
  BY ShowsKeeps
<1> QED BY <1>1 DEF Done, Effect, Shown, Shows

LEMMA BegunDone ==
  ASSUME Core', NEW h, NEW op, NEW k, NEW ref, Begun(h, op, k, ref), Starts(op, k, ref)
  PROVE  Done(h)
  BY DEF Done, Effect

LEMMA TurnedDone ==
  ASSUME Calmly, NEW h \in Handler, NEW from, from \notin Copiers \cup {"idle"}, At(h, from),
         NEW to, to \notin Copiers \cup {"idle"}, Goto(h, to), UNCHANGED <<store, maps>>, Goes(h, to)
  PROVE  Done(h)
<1>1. Core' /\ Turned(h, to)
  BY GotoDone
<1> QED BY <1>1 DEF Done, Effect, At

LEMMA RepliedDone ==
  ASSUME Calmly, NEW h \in Handler, NEW op, op # "idle", At(h, op), Answer(h, Promised(h)), UNCHANGED <<store, maps>>
  PROVE  Done(h)
<1>1. Core'
  BY ReplyDone
<1> QED BY <1>1 DEF Done, Effect, Cleared, Answer, At

LEMMA StoredDone ==
  ASSUME Core', NEW h \in Handler, NEW op, op \notin Detaching \cup {"idle", "adminDelete"}, At(h, op),
         NEW k, k = Key(h), NEW content, Stored(h, k, "available", content), NEW promise, Answer(h, promise)
  PROVE  Done(h)
<1>1. Cleared(h) /\ raced' = raced /\ req[h].op = op
  BY DEF Cleared, Answer, At
<1>2. PICK status : status = "available"
  OBVIOUS
<1>3. Stored(h, Key(h), status, content)
  BY <1>2
<1> QED BY <1>1, <1>3 DEF Done, Effect

LEMMA RemovedDone ==
  ASSUME Core', NEW h \in Handler, NEW op \in Dropping \cup Detaching, At(h, op),
         Removed(h, Key(h)), NEW promise, Answer(h, promise)
  PROVE  Done(h)
<1>1. Cleared(h) /\ raced' = raced /\ req[h].op = op
  BY DEF Cleared, Answer, At, Dropping, Detaching
<1> QED BY <1>1 DEF Done, Effect

LEMMA AdminDone ==
  ASSUME Calmly, NEW h \in Handler, DeleteResourceHandler(h)
  PROVE  Done(h)
<1>1. CASE \E k \in DOMAIN store : Begun(h, "adminDelete", k, Nobody)
  <2>1. PICK k \in DOMAIN store : Begun(h, "adminDelete", k, Nobody)
    BY <1>1
  <2>2. InWorkload(k)
    BY DEF Calmly, Core, Shape, StoreOK
  <2>3. Starts("adminDelete", k, Nobody)
    BY <2>2 DEF Starts, Dropping, Referring, Detaching
  <2> QED BY <2>1, <2>3, AdminKeeps, BegunDone
<1>2. CASE /\ At(h, "adminDelete") /\ Removed(h, Key(h)) /\ req' = [req EXCEPT ![h] = Idle]
           /\ raced' = raced /\ (Present(Key(h)) => Key(h) \in taken')
  BY <1>2, AdminKeeps DEF Done, Effect, Cleared, At
<1> QED BY <1>1, <1>2, AdminKeeps

\* The services' own ways.
LEMMA CreateNamedDone ==
  ASSUME Calmly, NEW h \in Handler, NEW k, InWorkload(k), Unique(k), ~Child(k), NEW op, op \notin Kinless,
         CreateNamed(h, op, k)
  PROVE  Done(h)
<1>1. op \notin Copiers \cup {"idle"}
  BY DEF Kinless
<1>2. CASE Present(k) /\ Shows({SubjectOf(k)})
  BY <1>2, ShowsDone
<1>3. CASE ~Present(k) /\ Begin(h, op, SubjectOf(k), [key |-> k])
  <2>1. Core' /\ Begun(h, op, k, Nobody)
    BY <1>1, <1>3, OneKey, BeginKey
  <2>2. Starts(op, k, Nobody)
    BY DEF Starts, Kinless, ChildOps
  <2> QED BY <2>1, <2>2, BegunDone
<1> QED BY <1>2, <1>3 DEF CreateNamed

LEMMA RemoveNamedDone ==
  ASSUME Calmly, NEW h \in Handler, NEW k, InWorkload(k), Unique(k), NEW op,
         IF Child(k) THEN op \in Detaching ELSE op \notin Kinless,
         RemoveNamed(h, op, k)
  PROVE  Done(h)
<1>1. op \notin Copiers \cup {"idle"}
  BY DEF Kinless, Detaching, Copiers
<1>2. CASE ~Present(k) /\ Shows({SubjectOf(k)})
  BY <1>2, ShowsDone
<1>3. CASE Present(k) /\ Begin(h, op, SubjectOf(k), [key |-> k])
  <2>1. Core' /\ Begun(h, op, k, Nobody)
    BY <1>1, <1>3, OneKey, BeginKey
  <2>2. Starts(op, k, Nobody)
    BY DEF Starts, Kinless, ChildOps, Detaching, Dropping, Referring
  <2> QED BY <2>1, <2>2, BegunDone
<1> QED BY <1>2, <1>3 DEF RemoveNamed
-----------------------------------------------------------------------------
(* Roles.                                                                   *)
LEMMA Families ==
  /\ \A k \in RoleKeys \cup VpcKeys \cup GroupKeys \cup QueueKeys \cup NameKeys : ~Child(k)
  /\ \A k \in AttachKeys \cup SubnetKeys \cup MemberKeys : Child(k)
  /\ \A k \in AttachKeys : Parent(k) = RoleKey(RoleOf(k)) /\ Parent(k) \in RoleKeys
  /\ \A k \in SubnetKeys : Parent(k) = VpcKey(VpcOf(k)) /\ Parent(k) \in VpcKeys
  /\ \A k \in MemberKeys : Parent(k) = k[2][1] /\ Parent(k) \in GroupKeys
<1>1. \A k \in RoleKeys \cup VpcKeys \cup GroupKeys \cup QueueKeys \cup NameKeys : ~Child(k)
  BY Kinds DEF Child
<1>2. \A k \in AttachKeys \cup SubnetKeys \cup MemberKeys : Child(k)
  BY DEF Child
<1>3. \A k \in AttachKeys : Parent(k) = RoleKey(RoleOf(k)) /\ Parent(k) \in RoleKeys
  BY DEF AttachKeys, AttachKey, Parent, RoleOf, RoleKeys
<1>4. \A k \in SubnetKeys : Parent(k) = VpcKey(VpcOf(k)) /\ Parent(k) \in VpcKeys
  BY DEF SubnetKeys, SubnetKey, Parent, VpcOf, VpcKeys
<1>5. \A k \in MemberKeys : Parent(k) = k[2][1] /\ Parent(k) \in GroupKeys
  BY DEF MemberKeys, MemberKey, Parent
<1> QED BY <1>1, <1>2, <1>3, <1>4, <1>5

\* A request begins to refer to a record that is there.
LEMMA ChildBegun ==
  ASSUME Calmly, NEW h \in Handler, NEW k, InWorkload(k), Child(k), Present(Parent(k)), NEW op \in Referring,
         Begin(h, op, SubjectOf(k), [key |-> k, ref |-> SubjectOf(Parent(k))])
  PROVE  Done(h)
<1>1. PICK ref : ref = SubjectOf(Parent(k))
  OBVIOUS
<1>2. Unique(k)
  BY Kinds DEF Child
<1>3. op \notin Copiers \cup {"idle"}
  BY DEF Referring, Copiers
<1>4. Core' /\ Begun(h, op, k, ref)
  BY <1>1, <1>2, <1>3, BeginRef
<1>5. Starts(op, k, ref)
  BY <1>1 DEF Starts, ChildOps, Referring, Detaching, Dropping
<1> QED BY <1>4, <1>5, BegunDone

\* Every operation on roles and their attachments.
LEMMA RoleKeeps ==
  ASSUME Calmly, workload = "roles", NEW h \in Handler, RoleStep(h)
  PROVE  Done(h)
<1>1. \A n \in RoleName : InWorkload(RoleKey(n)) /\ Unique(RoleKey(n)) /\ ~Child(RoleKey(n))
  BY Kinds, Families DEF InWorkload, RoleKeys
<1>2. \A r \in RoleName, p \in PolicyName :
        /\ InWorkload(AttachKey(r, p)) /\ Unique(AttachKey(r, p)) /\ Child(AttachKey(r, p))
        /\ Parent(AttachKey(r, p)) = RoleKey(r)
  <2>1. \A r \in RoleName, p \in PolicyName : AttachKey(r, p) \in AttachKeys
    BY DEF AttachKeys
  <2>2. \A r \in RoleName, p \in PolicyName : RoleOf(AttachKey(r, p)) = r
    BY DEF RoleOf, AttachKey
  <2> QED BY <2>1, <2>2, Kinds, Families DEF InWorkload
<1>3. PICK k : k = Key(h)
  OBVIOUS
<1>4. CASE createRole(h)
  <2>1. "createRole" \notin Kinless
    BY DEF Kinless, Copiers, ChildOps, Referring, Detaching, Dropping
  <2>2. CASE InsertNamed(h, "createRole")
    <3>1. Core' /\ Stored(h, k, "available", {}) /\ Answer(h, Record(k, {})) /\ At(h, "createRole")
      BY <1>3, <2>2, InsertNamedDone DEF InsertNamed
    <3> QED BY <1>3, <2>1, <3>1, StoredDone DEF Kinless, ChildOps
  <2>3. CASE \E n \in RoleName : CreateNamed(h, "createRole", RoleKey(n))
    BY <1>1, <2>1, <2>3, CreateNamedDone
  <2> QED BY <1>4, <2>2, <2>3 DEF createRole
<1>5. CASE deleteRole(h)
  <2>1. "deleteRole" \notin Kinless
    BY DEF Kinless, Copiers, ChildOps, Referring, Detaching, Dropping
  <2>2. CASE \E n \in RoleName : RemoveNamed(h, "deleteRole", RoleKey(n))
    BY <1>1, <2>1, <2>2, RemoveNamedDone
  <2>3. CASE At(h, "deleteRole") /\ Attachments(Key(h)[2]) = {} /\ Goto(h, "dropRole") /\ UNCHANGED <<store, maps>>
    <3>1. \A l \in DOMAIN store : Child(l) => Parent(l) # Key(h)
      <4> SUFFICES ASSUME NEW l \in DOMAIN store, Child(l), Parent(l) = Key(h) PROVE FALSE
        OBVIOUS
      <4>1. InWorkload(l)
        BY DEF Calmly, Core, Shape, StoreOK
      <4>2. l \in AttachKeys
        BY <4>1, Families DEF InWorkload
      <4>3. l[1] = "attachment" /\ Key(h)[2] = RoleOf(l)
        BY <4>2, Kinds, Families DEF RoleKey
      <4> QED BY <2>3, <4>3 DEF Attachments
    <3>2. Goes(h, "dropRole")
      BY <2>1, <2>3, <3>1 DEF Goes, At, Kinless, Dropping
    <3> QED BY <2>1, <2>3, <3>2, TurnedDone DEF Kinless, Copiers
  <2>4. CASE At(h, "deleteRole") /\ Answer(h, Promised(h)) /\ UNCHANGED <<store, maps>>
    BY <2>4, RepliedDone
  <2>5. CASE DropNamed(h, "dropRole")
    BY <2>5, DropNamedDone, RemovedDone DEF DropNamed, Dropping
  <2> QED BY <1>5, <2>2, <2>3, <2>4, <2>5 DEF deleteRole
<1>6. CASE attachRolePolicy(h)
  <2>1. ASSUME NEW r \in RoleName, NEW p \in PolicyName,
               IF Present(RoleKey(r))
               THEN Begin(h, "attach", SubjectOf(AttachKey(r, p)),
                          [key |-> AttachKey(r, p), ref |-> SubjectOf(RoleKey(r))])
               ELSE Shows({SubjectOf(RoleKey(r))})
        PROVE  Done(h)
    BY <1>2, <2>1, ShowsDone, ChildBegun DEF Referring
  <2>2. CASE At(h, "attach") /\ Answer(h, Promised(h)) /\ UNCHANGED <<store, maps>>
    BY <2>2, RepliedDone
  <2>3. CASE At(h, "attach") /\ Goto(h, "putAttachment") /\ UNCHANGED <<store, maps>>
    <3>1. Goes(h, "putAttachment")
      BY <2>3 DEF Goes, At, Referring
    <3> QED BY <2>3, <3>1, TurnedDone DEF Copiers
  <2>4. CASE InsertNamed(h, "putAttachment")
    <3>1. Core' /\ Stored(h, k, "available", {}) /\ Answer(h, Record(k, {})) /\ At(h, "putAttachment")
      BY <1>3, <2>4, InsertNamedDone DEF InsertNamed
    <3> QED BY <1>3, <3>1, StoredDone DEF Detaching
  <2> QED BY <1>6, <2>1, <2>2, <2>3, <2>4 DEF attachRolePolicy
<1>7. CASE detachRolePolicy(h)
  <2>1. CASE DropNamed(h, "detach")
    BY <2>1, DropNamedDone, RemovedDone DEF DropNamed, Detaching
  <2>2. CASE \E r \in RoleName, p \in PolicyName : RemoveNamed(h, "detach", AttachKey(r, p))
    BY <1>2, <2>2, RemoveNamedDone DEF Detaching
  <2> QED BY <1>7, <2>1, <2>2 DEF detachRolePolicy
<1> QED BY <1>4, <1>5, <1>6, <1>7 DEF RoleStep
-----------------------------------------------------------------------------
(* Security groups.                                                         *)
LEMMA GroupIsThere ==
  ASSUME Calmly, NEW k \in Groups
  PROVE  /\ k \in DOMAIN store /\ Present(k) /\ InWorkload(k)
         /\ workload \in {"groups", "members"} => k \in GroupKeys
<1>1. k \in DOMAIN store /\ k[1] = "sg" /\ InWorkload(k)
  BY DEF Groups, Calmly, Core, Shape, StoreOK
<1> QED BY <1>1, Kinds DEF InWorkload, Present

\* Every operation on groups, and the start of an instance in one.
LEMMA GroupKeeps ==
  ASSUME Calmly, workload \in {"groups", "members"}, NEW h \in Handler, GroupStep(h)
  PROVE  Done(h)
<1>1. \A n \in GroupName, i \in GroupId : InWorkload(GroupKey(n, i)) /\ ~Child(GroupKey(n, i))
  BY Families DEF InWorkload, GroupKeys
<1>2. PICK k : k = Key(h)
  OBVIOUS
<1>3. {"createGroup", "deleteGroup"} \cap Kinless = {}
  BY DEF Kinless, Copiers, ChildOps, Referring, Detaching, Dropping
<1>4. ASSUME NEW op \in {"createGroup", "deleteGroup"}, NEW l, InWorkload(l), ~Child(l), OnlyOne(l) \/ Present(l),
             Begin(h, op, SubjectOf(l), [key |-> l])
      PROVE  Done(h)
  <2>1. said[SubjectOf(l)] # Unknown /\ Busy(SubjectOf(l)) = {} /\ workload # "buckets" => OnlyOne(l)
    BY <1>4, OneKey
  <2>2. Core' /\ Begun(h, op, l, Nobody)
    BY <1>3, <1>4, <2>1, BeginKey DEF Kinless
  <2>3. Starts(op, l, Nobody)
    BY <1>3, <1>4 DEF Starts, Kinless, ChildOps
  <2> QED BY <2>2, <2>3, BegunDone
<1>5. CASE createSecurityGroup(h)
  <2>1. ASSUME NEW n \in GroupName, NEW i \in GroupId,
               IF Listed(SubjectOf(GroupKey(n, i))) = {}
               THEN Begin(h, "createGroup", SubjectOf(GroupKey(n, i)), [key |-> GroupKey(n, i)])
               ELSE Shows({SubjectOf(GroupKey(n, i))})
        PROVE  Done(h)
    <3>1. PICK l : l = GroupKey(n, i)
      OBVIOUS
    <3>2. CASE Listed(SubjectOf(l)) = {} /\ Begin(h, "createGroup", SubjectOf(l), [key |-> l])
      <4>1. OnlyOne(l)
        BY <3>2 DEF OnlyOne
      <4>2. InWorkload(l) /\ ~Child(l)
        BY <1>1, <3>1
      <4> QED BY <1>4, <3>2, <4>1, <4>2
    <3> QED BY <2>1, <3>1, <3>2, ShowsDone
  <2>2. CASE /\ At(h, "createGroup")
             /\ PutNew(Key(h), {<<"egress", DefaultRule>>})
             /\ Answer(h, Record(Key(h), {<<"egress", DefaultRule>>}))
    <3>1. PICK content : content = {<<"egress", DefaultRule>>}
      OBVIOUS
    <3>2. Busily(h, k) /\ PutNew(k, content) /\ Answer(h, Record(k, content)) /\ At(h, "createGroup")
      BY <1>2, <2>2, <3>1, Going
    <3>3. Stored(h, k, "available", content)
      BY <3>2, PutNewStores
    <3>4. Core'
      BY <3>2, <3>3, InsertKeeps
    <3> QED BY <1>2, <1>3, <3>2, <3>3, <3>4, StoredDone DEF Kinless, ChildOps
  <2> QED BY <1>5, <2>1, <2>2 DEF createSecurityGroup
<1>6. CASE deleteSecurityGroup(h)
  <2>1. ASSUME NEW l \in Groups, Begin(h, "deleteGroup", SubjectOf(l), [key |-> l]) PROVE Done(h)
    BY <1>4, <2>1, GroupIsThere, Families
  <2>2. CASE At(h, "deleteGroup") /\ Members(Key(h)) = {} /\ Goto(h, "dropGroup") /\ UNCHANGED <<store, maps>>
    <3>1. \A l \in DOMAIN store : Child(l) => Parent(l) # Key(h)
      <4> SUFFICES ASSUME NEW l \in DOMAIN store, Child(l), Parent(l) = Key(h) PROVE FALSE
        OBVIOUS
      <4>1. InWorkload(l)
        BY DEF Calmly, Core, Shape, StoreOK
      <4>2. l \in MemberKeys
        BY <4>1, Families DEF InWorkload
      <4>3. l[1] = "instance" /\ l[2][1] = Key(h)
        BY <4>2, Kinds, Families
      <4> QED BY <2>2, <4>3 DEF Members
    <3>2. Goes(h, "dropGroup")
      BY <1>3, <2>2, <3>1 DEF Goes, At, Kinless, Dropping
    <3> QED BY <1>3, <2>2, <3>2, TurnedDone DEF Kinless, Copiers
  <2>3. CASE At(h, "deleteGroup") /\ Answer(h, Promised(h)) /\ UNCHANGED <<store, maps>>
    BY <2>3, RepliedDone
  <2>4. CASE At(h, "dropGroup") /\ Delete(Key(h)) /\ Answer(h, Gone)
    <3>1. Busily(h, k) /\ Delete(k) /\ Answer(h, Gone)
      BY <1>2, <2>4, Going
    <3>2. Core' /\ Removed(h, k)
      BY <3>1, DropKeeps
    <3> QED BY <1>2, <2>4, <3>1, <3>2, RemovedDone DEF Dropping
  <2> QED BY <1>6, <2>1, <2>2, <2>3, <2>4 DEF deleteSecurityGroup
<1> QED BY <1>5, <1>6 DEF GroupStep

LEMMA MemberKeeps ==
  ASSUME Calmly, workload = "members", NEW h \in Handler, runInstances(h)
  PROVE  Done(h)
<1>1. PICK k : k = Key(h)
  OBVIOUS
<1>2. ASSUME NEW g \in Groups, NEW i \in Member,
             Begin(h, "runInstance", SubjectOf(MemberKey(g, i)), [key |-> MemberKey(g, i), ref |-> SubjectOf(g)])
      PROVE  Done(h)
  <2>1. g \in GroupKeys /\ Present(g)
    BY GroupIsThere
  <2>2. PICK l : l = MemberKey(g, i)
    OBVIOUS
  <2>3. l \in MemberKeys /\ l[2][1] = g
    BY <2>1, <2>2 DEF MemberKeys, MemberKey
  <2>4. InWorkload(l) /\ Child(l) /\ Parent(l) = g
    BY <2>3, Families DEF InWorkload
  <2>5. Begin(h, "runInstance", SubjectOf(l), [key |-> l, ref |-> SubjectOf(Parent(l))])
    BY <1>2, <2>2, <2>4
  <2> QED BY <2>1, <2>4, <2>5, ChildBegun DEF Referring
<1>3. CASE At(h, "runInstance") /\ PutBare(Key(h)) /\ Answer(h, Record(Key(h), {}))
  <2>1. InsertNamed(h, "runInstance")
    BY <1>3 DEF InsertNamed
  <2>2. Core' /\ Stored(h, k, "available", {}) /\ Answer(h, Record(k, {})) /\ At(h, "runInstance")
    BY <1>1, <1>3, <2>1, InsertNamedDone
  <2> QED BY <1>1, <2>2, StoredDone DEF Detaching
<1> QED BY <1>2, <1>3 DEF runInstances
-----------------------------------------------------------------------------
(* Rules of security groups.                                                *)
LEMMA RuleKeeps ==
  ASSUME Calmly, workload = "groups", NEW h \in Handler, RuleStep(h)
  PROVE  Core'
<1>1. PICK k : k = Key(h)
  OBVIOUS
<1>2. RuleOps \subseteq Copiers /\ RuleOps = {"authorize", "revoke"}
  BY DEF RuleOps, Copiers
<1>3. ASSUME NEW op \in RuleOps, NEW field, ReadRules(h, op, field)
      PROVE  Core'
  <2>1. PICK l \in Groups, rules \in RequestedRules(field) :
          Begin(h, op, SubjectOf(l), [key |-> l, copy |-> store[l], read |-> List(l, field),
                                      field |-> field, arg |-> rules])
    BY <1>3 DEF ReadRules
  <2>2. PICK copy, read : copy = store[l] /\ read = List(l, field)
    OBVIOUS
  <2>3. PICK fields : fields = [key |-> l, copy |-> copy, read |-> read, field |-> field, arg |-> rules]
    OBVIOUS
  <2>4. DOMAIN fields = {"key", "copy", "read", "field", "arg"} /\ fields["key"] = l /\ fields["copy"] = copy
        /\ fields["read"] = read /\ fields["field"] = field /\ fields["arg"] = rules
    BY <2>3
  <2>5. Begin(h, op, SubjectOf(l), fields)
    BY <2>1, <2>2, <2>3
  <2>6. rules \subseteq {field} \X Rule
    BY DEF RequestedRules
  <2>7. Present(l) /\ InWorkload(l)
    BY GroupIsThere
  <2>8. said[SubjectOf(l)] # Unknown /\ Busy(SubjectOf(l)) = {} /\ workload # "buckets" => OnlyOne(l)
    BY <2>7, OneKey
  <2> QED BY <1>2, <1>3, <2>2, <2>4, <2>5, <2>6, <2>7, <2>8, BeginCopyKeeps
<1>4. PICK field, read, arg, copy :
        field = req[h].field /\ read = req[h].read /\ arg = req[h].arg /\ copy = req[h].copy
  OBVIOUS
<1>5. ASSUME NEW op \in RuleOps, At(h, op)
      PROVE  /\ Busily(h, k) /\ req[h].op \in Copiers /\ arg \subseteq {field} \X Rule
             /\ req[h].alone /\ said[SubjectOf(k)] # Unknown =>
                  PromisedContent(h) = Content(copy) /\ read = {x \in Content(copy) : x[1] = field}
  <2>1. Busily(h, k) /\ req[h].op \in RuleOps /\ req[h].op \in Copiers
    BY <1>1, <1>2, <1>5, Going DEF At
  <2>2. arg \subseteq {field} \X Rule
    BY <1>4, <2>1 DEF Busily, Core, Shape, TaskOK
  <2>3. ASSUME req[h].alone, said[SubjectOf(k)] # Unknown
        PROVE  PromisedContent(h) = Content(copy) /\ read = {x \in Content(copy) : x[1] = field}
    <3>1. PromisedContent(h) = Content(copy)
      BY <1>4, <2>1, <2>3, PromiseCopy
    <3>2. read = List(k, field) /\ store[k] = copy
      BY <1>4, <2>1, <2>3, QuietNow
    <3> QED BY <3>1, <3>2 DEF List
  <2> QED BY <2>1, <2>2, <2>3
<1>6. ASSUME NEW f, modifySecurityGroupRules(h, f) PROVE Core'
  <2>1. CASE ReadRules(h, "authorize", f)
    BY <1>2, <1>3, <2>1
  <2>2. CASE /\ At(h, "authorize")
             /\ WriteRules(h, req[h].read \cup req[h].arg)
             /\ Answer(h, Record(Key(h), PromisedContent(h) \cup req[h].arg))
    <3>1. PICK content : content = {x \in Content(copy) : x[1] # field} \cup (read \cup arg)
      OBVIOUS
    <3>2. PICK told : told = PromisedContent(h) \cup arg
      OBVIOUS
    <3>3. PutCopy(h, content) /\ Answer(h, Record(k, told))
      BY <1>1, <1>4, <2>2, <3>1, <3>2 DEF WriteRules
    <3>4. /\ Busily(h, k) /\ req[h].op \in Copiers
          /\ req[h].alone /\ said[SubjectOf(k)] # Unknown => told = content
      BY <1>2, <1>5, <2>2, <3>1, <3>2
    <3> QED BY <3>3, <3>4, ModifyOne
  <2> QED BY <1>6, <2>1, <2>2 DEF modifySecurityGroupRules
<1>7. ASSUME NEW f, removeSecurityGroupRules(h, f) PROVE Core'
  <2>1. CASE ReadRules(h, "revoke", f)
    BY <1>2, <1>3, <2>1
  <2>2. CASE /\ At(h, "revoke")
             /\ WriteRules(h, req[h].read \ Matched(req[h].read, req[h].arg))
             /\ Answer(h, Record(Key(h), PromisedContent(h) \ Matched(PromisedContent(h), req[h].arg)))
    <3>1. PICK content : content = {x \in Content(copy) : x[1] # field} \cup (read \ Matched(read, arg))
      OBVIOUS
    <3>2. PICK told : told = PromisedContent(h) \ Matched(PromisedContent(h), arg)
      OBVIOUS
    <3>3. PutCopy(h, content) /\ Answer(h, Record(k, told))
      BY <1>1, <1>4, <2>2, <3>1, <3>2 DEF WriteRules
    <3>4. Busily(h, k) /\ req[h].op \in Copiers
      BY <1>2, <1>5, <2>2
    <3>5. ASSUME req[h].alone, said[SubjectOf(k)] # Unknown PROVE told = content
      <4>1. PromisedContent(h) = Content(copy) /\ read = {x \in Content(copy) : x[1] = field}
        BY <1>2, <1>5, <2>2, <3>5
      <4>2. \A x \in arg : x[1] = field
        BY <1>2, <1>5, <2>2
      <4>3. \A x, y : <<x, y>> \in arg => x = field
        BY <4>2
      <4>4. Matched(Content(copy), arg) = Matched(read, arg)
        BY <4>1, <4>2, <4>3 DEF Matched
      <4> QED BY <3>1, <3>2, <4>1, <4>2, <4>4 DEF Matched
    <3> QED BY <3>3, <3>4, <3>5, ModifyOne
  <2> QED BY <1>7, <2>1, <2>2 DEF removeSecurityGroupRules
<1> QED BY <1>6, <1>7 DEF RuleStep, authorizeSecurityGroupIngress, authorizeSecurityGroupEgress,
                          revokeSecurityGroupIngress, revokeSecurityGroupEgress
-----------------------------------------------------------------------------
(* VPCs and subnets.                                                        *)
LEMMA VpcKeeps ==
  ASSUME Calmly, workload = "vpc", NEW h \in Handler, VpcStep(h)
  PROVE  Done(h)
<1>1. \A i \in VpcId : InWorkload(VpcKey(i)) /\ Unique(VpcKey(i)) /\ ~Child(VpcKey(i))
  BY Kinds, Families DEF InWorkload, VpcKeys
<1>2. \A v \in VpcId, i \in SubnetId :
        /\ InWorkload(SubnetKey(v, i)) /\ Unique(SubnetKey(v, i)) /\ Child(SubnetKey(v, i))
        /\ Parent(SubnetKey(v, i)) = VpcKey(v)
  <2>1. \A v \in VpcId, i \in SubnetId : SubnetKey(v, i) \in SubnetKeys
    BY DEF SubnetKeys
  <2>2. \A v \in VpcId, i \in SubnetId : VpcOf(SubnetKey(v, i)) = v
    BY DEF VpcOf, SubnetKey
  <2> QED BY <2>1, <2>2, Kinds, Families DEF InWorkload
<1>3. PICK k : k = Key(h)
  OBVIOUS
<1>4. {"createVpc", "deleteVpc"} \cap Kinless = {}
  BY DEF Kinless, Copiers, ChildOps, Referring, Detaching, Dropping
<1>5. ASSUME NEW op \in {"createVpc", "deleteVpc", "deleteSubnet"}, NEW l, InWorkload(l), Unique(l),
             IF Child(l) THEN op = "deleteSubnet" ELSE op # "deleteSubnet",
             Begin(h, op, SubjectOf(l), [key |-> l])
      PROVE  Done(h)
  <2>1. op \notin Copiers \cup {"idle"}
    BY DEF Copiers
  <2>2. Core' /\ Begun(h, op, l, Nobody)
    BY <1>5, <2>1, OneKey, BeginKey
  <2>3. Starts(op, l, Nobody)
    BY <1>5 DEF Starts, ChildOps, Detaching, Dropping, Referring
  <2> QED BY <2>2, <2>3, BegunDone
<1>6. ASSUME NEW op \in {"createVpc", "createSubnet"}, At(h, op), PutBare(Key(h)), Answer(h, Record(Key(h), {}))
      PROVE  Done(h)
  <2>1. InsertNamed(h, op)
    BY <1>6 DEF InsertNamed
  <2>2. Core' /\ Stored(h, k, "available", {}) /\ Answer(h, Record(k, {}))
    BY <1>3, <1>6, <2>1, InsertNamedDone
  <2> QED BY <1>3, <1>6, <2>2, StoredDone DEF Detaching
<1>7. ASSUME NEW op \in {"dropVpc", "deleteSubnet"}, At(h, op), Delete(Key(h)), Answer(h, Gone)
      PROVE  Done(h)
  <2>1. DropNamed(h, op)
    BY <1>7 DEF DropNamed
  <2>2. Core' /\ Removed(h, Key(h))
    BY <1>7, <2>1, DropNamedDone
  <2> QED BY <1>7, <2>2, RemovedDone DEF Dropping, Detaching
<1>8. CASE createVpc(h)
  BY <1>1, <1>5, <1>6, <1>8 DEF createVpc
<1>9. CASE FindVpc(h)
  BY <1>1, <1>5, <1>9, ShowsDone DEF FindVpc
<1>10. CASE LookForSubnets(h)
  <2>1. CASE At(h, "deleteVpc") /\ Subnets(Key(h)[2]) = {} /\ Goto(h, "removeNetwork") /\ UNCHANGED <<store, maps>>
    <3>1. \A l \in DOMAIN store : Child(l) => Parent(l) # Key(h)
      <4> SUFFICES ASSUME NEW l \in DOMAIN store, Child(l), Parent(l) = Key(h) PROVE FALSE
        OBVIOUS
      <4>1. InWorkload(l)
        BY DEF Calmly, Core, Shape, StoreOK
      <4>2. l \in SubnetKeys
        BY <4>1, Families DEF InWorkload
      <4>3. l[1] = "subnet" /\ Key(h)[2] = VpcOf(l)
        BY <4>2, Kinds, Families DEF VpcKey
      <4> QED BY <2>1, <4>3 DEF Subnets
    <3>2. Goes(h, "removeNetwork")
      BY <1>4, <2>1, <3>1 DEF Goes, At, Kinless, Dropping
    <3> QED BY <2>1, <3>2, TurnedDone DEF Copiers
  <2>2. CASE At(h, "deleteVpc") /\ Answer(h, Promised(h)) /\ UNCHANGED <<store, maps>>
    BY <2>2, RepliedDone
  <2> QED BY <1>10, <2>1, <2>2 DEF LookForSubnets
<1>11. CASE RemoveNetwork(h)
  <2>1. At(h, "removeNetwork") /\ Goto(h, "dropVpc") /\ UNCHANGED <<store, maps>>
    BY <1>11 DEF RemoveNetwork
  <2>2. Goes(h, "dropVpc")
    BY <2>1 DEF Goes, At, Dropping, ChildOps, Referring, Detaching
  <2> QED BY <2>1, <2>2, TurnedDone DEF Copiers
<1>12. CASE DropVpc(h)
  BY <1>7, <1>12 DEF DropVpc
<1>13. CASE createSubnet(h)
  <2>1. ASSUME NEW v \in VpcId, NEW i \in SubnetId, Present(VpcKey(v)),
               Begin(h, "createSubnet", SubjectOf(SubnetKey(v, i)),
                     [key |-> SubnetKey(v, i), ref |-> SubjectOf(VpcKey(v))])
        PROVE  Done(h)
    BY <1>2, <2>1, ChildBegun DEF Referring
  <2> QED BY <1>6, <1>13, <2>1 DEF createSubnet
<1>14. CASE deleteSubnet(h)
  BY <1>2, <1>5, <1>7, <1>14, ShowsDone DEF deleteSubnet
<1> QED BY <1>8, <1>9, <1>10, <1>11, <1>12, <1>13, <1>14 DEF VpcStep, deleteVpc
-----------------------------------------------------------------------------
(* Buckets.                                                                 *)
LEMMA BeginBucketKeeps ==
  ASSUME Calmly, workload = "buckets", NEW h \in Handler, NEW k, InWorkload(k), NEW op, op \notin Copiers \cup {"idle"},
         NEW arg, BeginBucket(h, op, k, [arg |-> arg])
  PROVE  Core' /\ Begun(h, op, k, SubjectOf(k))
<1>1. PICK ref : ref = SubjectOf(k)
  OBVIOUS
<1>2. PICK fields : fields = Over([key |-> k, ref |-> ref], [arg |-> arg])
  OBVIOUS
<1>3. PICK f, g : f = [key |-> k, ref |-> ref] /\ g = [arg |-> arg]
  OBVIOUS
<1>4. DOMAIN f = {"key", "ref"} /\ DOMAIN g = {"arg"} /\ f["key"] = k /\ f["ref"] = ref
  BY <1>3
<1>5. fields = Over(f, g)
  BY <1>2, <1>3
<1>6. DOMAIN fields = {"key", "ref", "arg"} /\ fields["key"] = k /\ fields["ref"] = ref
  BY <1>4, <1>5 DEF Over
<1>7. Begin(h, op, SubjectOf(k), fields)
  BY <1>1, <1>2 DEF BeginBucket
<1>8. Core' /\ Begun(h, op, k, Given(fields, "ref", Nobody))
  BY <1>6, <1>7, BeginKeeps
<1>9. Given(fields, "ref", Nobody) = ref
  BY <1>6 DEF Given
<1> QED BY <1>1, <1>8, <1>9

\* Uploads, copies and deletions of objects change no record.
LEMMA NothingKeeps ==
  ASSUME Calmly, UNCHANGED recVars
  PROVE  Core'
<1>1. said = [s \in Subject |-> said[s]]
  BY DEF Calmly, Core, Shape
<1>2. Shows({})
  BY <1>1 DEF Shows, recVars
<1> QED BY <1>2, ShowsKeeps

\* A request whose answer is lost changes no record, and those beside it are not alone.
LEMMA UnheardKeeps ==
  ASSUME Calmly, NEW s \in Subject, Unheard(s)
  PROVE  /\ Core' /\ store' = store /\ raced \subseteq raced' /\ raced' \subseteq raced \cup {s}
         /\ \A g \in Handler : req'[g].op = req[g].op /\ req'[g].key = req[g].key
<1>1. Core /\ Shape /\ Apart /\ Solo /\ Kept /\ UNCHANGED <<store, maps, workload>>
  BY DEF Calmly, Core, Unheard
<1>2. req' = Marked(s) /\ said' = [t \in Subject |-> IF t = s /\ Busy(s) # {} THEN Unknown ELSE said[t]]
  BY <1>1 DEF Unheard, Shape
<1>3. req' = [g \in Handler |-> req'[g]] /\ \A g \in Handler : MarkedFor(g, s)
  BY <1>1, <1>2, MarkedIs DEF MarkedFor
<1>4. Shape'
  <2>1. StoreOK' /\ said' = [t \in Subject |-> said'[t]] /\ maps' = [m \in Map |-> maps'[m]]
    BY <1>1, <1>2 DEF Shape, StoreOK, InWorkload, RecordOK
  <2> QED BY <1>3, <2>1, MarkedOK DEF Shape
<1>5. \A g \in Handler : /\ req'[g].op = req[g].op /\ req'[g].copy = req[g].copy /\ req'[g].key = req[g].key
                         /\ req'[g].subject = req[g].subject
                         /\ req[g].subject = s => ~req'[g].alone
                         /\ req[g].subject # s => req'[g] = req[g]
  BY <1>3 DEF MarkedFor, MarkedAs, Same
<1>6. Apart' /\ Solo'
  BY <1>1, <1>5 DEF Apart, Solo, Key
<1>7. Kept'
  <2> SUFFICES ASSUME NEW t \in Subject, Quiet(t)' PROVE said'[t] = View(t)' /\ Single(t)'
    BY DEF Kept
  <2>1. said'[t] = said[t] /\ Quiet(t)
    BY <1>2, <1>5 DEF Quiet, Busy
  <2> QED BY <1>1, <2>1 DEF Kept, Single, View, Listed, Content
<1>8. ASSUME NEW g \in Handler PROVE UpToDate(g)'
  <2>1. CASE req[g].subject = s
    BY <1>5, <2>1 DEF UpToDate
  <2>2. CASE req[g].subject # s /\ ~At(g, "idle")
    <3>1. UpToDate(g) /\ req[g].subject \in Subject
      BY <1>1, <2>2, InKeys, Blanks DEF Core, Shape, TaskOK, At
    <3>2. said'[req[g].subject] = said[req[g].subject]
      BY <1>2, <2>2, <3>1
    <3> QED BY <1>1, <1>5, <2>2, <3>1, <3>2 DEF UpToDate, Key, At, Present, List, Content, Listed
  <2>3. CASE req[g].subject # s /\ At(g, "idle")
    BY <1>5, <2>3 DEF UpToDate, At
  <2> QED BY <2>1, <2>2, <2>3
<1>9. raced \subseteq raced' /\ raced' \subseteq raced \cup {s}
  BY DEF Unheard
<1> QED BY <1>1, <1>4, <1>5, <1>6, <1>7, <1>8, <1>9 DEF Core

\* Every operation of S3 and Cloud Storage.
LEMMA BucketKeeps ==
  ASSUME Calmly, workload = "buckets", NEW h \in Handler, BucketStep(h)
  PROVE  Core'
<1>1. \A b \in Bucket : InWorkload(S3Key(b)) /\ InWorkload(GcsKey(b))
  BY DEF InWorkload, BucketKeys
<1>2. PICK k : k = Key(h)
  OBVIOUS
<1>3. PICK f : f = Promised(h)
  OBVIOUS
<1>4. ASSUME ~At(h, "idle") PROVE Busily(h, k) /\ f = said[SubjectOf(k)]
  <2>1. Busily(h, k)
    BY <1>2, <1>4 DEF Calmly, Busily
  <2> QED BY <1>3, <2>1, BusyNow DEF Promised
<1>5. ASSUME NEW op \in {"recordBucket", "forgetBucket", "readBucket", "putOther", "deleteConfig"},
             NEW b \in Bucket, NEW l \in {S3Key(b), GcsKey(b)}, NEW arg, BeginBucket(h, op, l, [arg |-> arg])
      PROVE  Core'
  <2>1. op \notin Copiers \cup {"idle"}
    BY DEF Copiers
  <2>2. InWorkload(l)
    BY <1>1
  <2> QED BY <1>5, <2>1, <2>2, BeginBucketKeeps
<1>6. ASSUME NEW b \in Bucket, NEW l \in {S3Key(b), GcsKey(b)}, MinIOCreates(h, l) \/ MinIODeletes(h, l) PROVE Core'
  <2>1. SubjectOf(l) \in Subject
    BY <1>1, InKeys
  <2>2. CASE Unheard(SubjectOf(l))
    BY <2>1, <2>2, UnheardKeeps
  <2> QED BY <1>5, <1>6, <2>2 DEF MinIOCreates, MinIODeletes
<1>7. ASSUME NEW b \in Bucket, NEW op \in {"readBucket", "putOther", "deleteConfig"}, NEW c, MinIOConfigures(h, op, b, c)
      PROVE  Core'
  BY <1>5, <1>7 DEF MinIOConfigures
<1>8. CASE createBucketResource(h)
  <2>1. Busily(h, k) /\ PutBare(k)
    BY <1>2, <1>4, <1>8 DEF createBucketResource, At
  <2>2. Stored(h, k, "available", {})
    BY <2>1, PutBareStores
  <2>3. PICK promise : promise = Over(Record(k, {}), f)
    OBVIOUS
  <2>4. Answer(h, promise)
    BY <1>2, <1>3, <1>8, <2>3 DEF createBucketResource
  <2>5. promise = Over(Only(k, [status |-> "available", content |-> {}]), said[SubjectOf(k)])
    BY <1>4, <2>1, <2>3 DEF Record, Busily
  <2> QED BY <2>1, <2>2, <2>4, <2>5, ModifyKeeps
<1>9. CASE deleteBucketResource(h)
  <2>1. Busily(h, k) /\ Delete(k)
    BY <1>2, <1>4, <1>9 DEF deleteBucketResource, At
  <2>2. PICK promise : promise = Without(f, k)
    OBVIOUS
  <2>3. Answer(h, promise)
    BY <1>2, <1>3, <1>9, <2>2 DEF deleteBucketResource
  <2> QED BY <1>3, <2>1, <2>2, <2>3, RemoveKeeps
<1>10. CASE At(h, "readBucket") /\ Present(Key(h)) /\ UNCHANGED <<store, maps, said>>
            /\ req' = [req EXCEPT ![h].op = "configure", ![h].copy = store[Key(h)]]
  <2>1. Busily(h, k)
    BY <1>4, <1>10 DEF At
  <2>2. PICK p, copy : p = req[h] /\ copy = store[k]
    OBVIOUS
  <2>3. PICK r : r = [p EXCEPT !.op = "configure", !.copy = copy]
    OBVIOUS
  <2>4. req' = [req EXCEPT ![h] = r]
    BY <1>2, <1>10, <2>2, <2>3
  <2>5. Fields \subseteq DOMAIN p
    BY <2>1, <2>2 DEF Busily, Core, Shape, TaskOK
  <2>6. /\ Fields \subseteq DOMAIN r /\ r.op = "configure" /\ r.copy = copy
        /\ r.key = p.key /\ r.subject = p.subject /\ r.alone = p.alone
    BY <2>3, <2>5 DEF Fields
  <2>7. Copying(r, k)
    BY <1>2, <1>10, <2>2, <2>6 DEF Copying, Copiers
  <2>8. r.key = k /\ r.op \notin RuleOps \cup {"idle"}
    BY <1>2, <2>2, <2>6 DEF Key, RuleOps
  <2> QED BY <1>10, <2>1, <2>2, <2>4, <2>6, <2>7, <2>8, TurnKeeps
<1>11. CASE At(h, "readBucket") /\ Answer(h, Promised(h)) /\ UNCHANGED <<store, maps>>
  BY <1>11, ReplyDone
<1>12. CASE /\ At(h, "configure")
            /\ PutCopy(h, Content(req[h].copy) \cup req[h].arg)
            /\ Answer(h, Over(Record(Key(h), PromisedContent(h) \cup req[h].arg), Promised(h)))
  <2>1. Busily(h, k) /\ req[h].op \in Copiers
    BY <1>4, <1>12 DEF At, Copiers
  <2>2. PICK content, told : content = Content(req[h].copy) \cup req[h].arg
                             /\ told = PromisedContent(h) \cup req[h].arg
    OBVIOUS
  <2>3. PutCopy(h, content)
    BY <1>12, <2>2
  <2>4. req[h].copy.status = "available"
    BY <2>1 DEF Busily, Core, Shape, TaskOK, RecordOK
  <2>5. Stored(h, k, "available", content)
    BY <2>1, <2>3, <2>4, PutCopyStores
  <2>6. PICK promise : promise = Over(Record(k, told), f)
    OBVIOUS
  <2>7. Answer(h, promise)
    BY <1>2, <1>3, <1>12, <2>2, <2>6
  <2>8. ASSUME req[h].alone, said[SubjectOf(k)] # Unknown
        PROVE  promise = Over(Only(k, [status |-> "available", content |-> content]), said[SubjectOf(k)])
    <3>1. f = View(SubjectOf(k)) /\ k \in DOMAIN store /\ store[k] = req[h].copy
      BY <1>4, <2>1, <2>8, QuietNow DEF Busily
    <3>2. f[k].content = Content(req[h].copy)
      BY <3>1 DEF View, Listed
    <3>3. told = content
      BY <1>2, <1>3, <2>2, <3>2 DEF PromisedContent
    <3> QED BY <1>4, <2>1, <2>6, <3>3 DEF Record, Busily
  <2> QED BY <2>1, <2>5, <2>7, <2>8, ModifyKeeps
<1>13. CASE mistakenForBucket(h)
  <2>1. Busily(h, k)
    BY <1>4, <1>13 DEF mistakenForBucket, At
  <2>2. CASE PutBare(k) /\ Answer(h, Over(Record(k, {}), f))
    <3>1. Stored(h, k, "available", {})
      BY <2>1, <2>2, PutBareStores
    <3>2. PICK promise : promise = Over(Record(k, {}), f)
      OBVIOUS
    <3>3. Answer(h, promise)
      BY <2>2, <3>2
    <3>4. promise = Over(Only(k, [status |-> "available", content |-> {}]), said[SubjectOf(k)])
      BY <1>4, <2>1, <3>2 DEF Record, Busily
    <3> QED BY <2>1, <3>1, <3>3, <3>4, ModifyKeeps
  <2>3. CASE Delete(k) /\ Answer(h, Without(f, k))
    <3>1. PICK promise : promise = Without(f, k)
      OBVIOUS
    <3>2. Answer(h, promise)
      BY <2>3, <3>1
    <3> QED BY <1>3, <2>1, <2>3, <3>1, <3>2, RemoveKeeps
  <2> QED BY <1>2, <1>3, <1>13, <2>2, <2>3 DEF mistakenForBucket
<1>14. CASE handleObjectUpload \/ handleObjectCopy \/ handleObjectDelete
  <2>1. UNCHANGED recVars
    BY <1>14 DEF handleObjectUpload, handleObjectCopy, handleObjectDelete
  <2> QED BY <2>1, NothingKeeps
<1>15. CASE updateBucketConfig(h)
  BY <1>10, <1>11, <1>12, <1>15 DEF updateBucketConfig
<1>16. CASE S3Step(h) \/ handleCreateBucket(h) \/ handleDeleteBucket(h)
  BY <1>6, <1>7, <1>13, <1>15, <1>16 DEF S3Step, handleCreateBucket, handleDeleteBucket
<1> QED BY <1>8, <1>9, <1>14, <1>16 DEF BucketStep
-----------------------------------------------------------------------------
(* What was answered is so.                                                 *)
\* The invariant holds at the start,
LEMMA CoreInit ==
  ASSUME Init
  PROVE  Core
<1>1. /\ maps = [m \in Map |-> {}] /\ req = [h \in Handler |-> Idle]
      /\ IF workload = "tags"
         THEN /\ store = [k \in TaggedKeys |-> [status |-> "running", map |-> NilMap]]
              /\ said = [s \in Subject |->
                           [k \in {InstanceKey(i) : i \in {j \in TaggedInstance : s = <<"instance", j>>}} |->
                              [status |-> "running", content |-> {}]]]
         ELSE store = <<>> /\ said = [s \in Subject |-> <<>>]
  BY DEF Init, TagsInit, RecInit, TaggedKeys
<1>2. \A h \in Handler : req[h] = Idle
  BY <1>1
<1>3. Solo /\ \A h \in Handler : TaskOK(h) /\ UpToDate(h)
  BY <1>2, Blanks DEF Solo, TaskOK, UpToDate, At, Copiers, RuleOps
<1>4. CASE workload # "tags"
  <2>1. DOMAIN store = {} /\ \A s \in Subject : said[s] = <<>>
    BY <1>1, <1>4
  <2>2. Shape
    BY <1>1, <1>2, <1>3, <1>4, <2>1 DEF Shape, StoreOK
  <2>3. Apart
    BY <1>2, <2>1, Blanks DEF Apart
  <2>4. Kept
    BY <2>1 DEF Kept, View, Listed, Single
  <2> QED BY <1>3, <2>2, <2>3, <2>4 DEF Core
<1>5. CASE workload = "tags"
  <2>1. DOMAIN store = TaggedKeys /\ \A k \in TaggedKeys : store[k] = [status |-> "running", map |-> NilMap]
    BY <1>1, <1>5
  <2>2. Shape
    BY <1>1, <1>2, <1>3, <1>5, <2>1 DEF Shape, StoreOK, InWorkload, RecordOK, Records
  <2>3. Apart
    BY <1>2, <2>1, Blanks DEF Apart
  <2>4. Kept
    <3> SUFFICES ASSUME NEW s \in Subject PROVE said[s] = View(s) /\ Single(s)
      BY DEF Kept
    <3>1. Listed(s) = {InstanceKey(i) : i \in {j \in TaggedInstance : s = <<"instance", j>>}}
      BY <2>1 DEF Listed, TaggedKeys, InstanceKey, SubjectOf
    <3>2. \A k \in Listed(s) : [status |-> store[k].status, content |-> Content(store[k])]
                               = [status |-> "running", content |-> {}]
      BY <2>1 DEF Listed, Content
    <3>3. said[s] = [k \in Listed(s) |-> [status |-> "running", content |-> {}]]
      BY <1>1, <1>5, <3>1
    <3>4. Single(s)
      BY <3>1 DEF Single, InstanceKey
    <3> QED BY <3>2, <3>3, <3>4 DEF View
  <2> QED BY <1>3, <2>2, <2>3, <2>4 DEF Core
<1> QED BY <1>4, <1>5

\* (a key that is taken stays so until it has a record again)
StillHeld == taken \ DOMAIN store' \subseteq taken'

\* after every step of a handler,
LEMMA StepDone ==
  ASSUME Calmly, NEW h \in Handler, ServiceStep(h)
  PROVE  /\ Core'
         /\ workload \in {"roles", "vpc", "members"} => Effect(h)
         /\ StillHeld
<1>0. StillHeld
  BY DEF ServiceStep, Admin, DeleteResourceHandler, StillTaken, StillHeld
<1>1. CASE workload = "names" /\ NameStep(h)
  BY <1>0, <1>1, NameKeeps
<1>2. CASE workload = "roles" /\ RoleStep(h)
  BY <1>0, <1>2, RoleKeeps DEF Done
<1>3. CASE workload = "groups" /\ (GroupStep(h) \/ RuleStep(h))
  BY <1>0, <1>3, GroupKeeps, RuleKeeps DEF Done
<1>4. CASE workload = "members" /\ (GroupStep(h) \/ runInstances(h))
  BY <1>0, <1>4, GroupKeeps, MemberKeeps DEF Done
<1>5. CASE workload = "sqs" /\ SqsStep(h)
  BY <1>0, <1>5, SqsKeeps
<1>6. CASE workload = "keypairs" /\ KeyPairStep(h)
  BY <1>0, <1>6, PairKeeps
<1>7. CASE workload = "tags" /\ TagsStep(h)
  BY <1>0, <1>7, TagsKeeps
<1>8. CASE DeleteResourceHandler(h)
  BY <1>0, <1>8, AdminDone DEF Done
<1>9. CASE workload = "vpc" /\ VpcStep(h)
  BY <1>0, <1>9, VpcKeeps DEF Done
<1>10. CASE workload = "buckets" /\ BucketStep(h)
  BY <1>0, <1>10, BucketKeeps
<1> QED BY <1>1, <1>2, <1>3, <1>4, <1>5, <1>6, <1>7, <1>8, <1>9, <1>10 DEF ServiceStep, Service, Admin

\* after every read,
LEMMA ReadsShow ==
  ASSUME Reads
  PROVE  \E subjects : Shows(subjects)
<1>1. CASE NameReads \/ RoleReads
  BY <1>1 DEF NameReads, RoleReads, getUser, getPolicy, getRole, listUsers, listPolicies, listRoles, ListKind,
              listAttachedRolePolicies
<1>2. CASE VpcReads \/ SqsReads \/ AdminReads
  BY <1>2 DEF VpcReads, describeVpcs, describeSubnets, SqsReads, getQueueUrl, getQueueAttributes, listQueues,
              AdminReads, ListResourcesHandler, GetResourceHandler
<1>3. CASE describeSecurityGroups \/ describeKeyPairs \/ describeTags
  BY <1>3 DEF describeSecurityGroups, describeKeyPairs, describeTags
<1> QED BY <1>1, <1>2, <1>3 DEF Reads

\* ... so after every step.
LEMMA CoreNext ==
  ASSUME Core, [Next]_vars
  PROVE  Core'
<1>1. CASE UNCHANGED vars
  <2>1. Calmly /\ UNCHANGED recVars
    BY <1>1 DEF vars, recVars, Calmly
  <2> QED BY <2>1, NothingKeeps
<1>2. CASE Next
  <2>1. Calmly
    BY <1>2 DEF Next, Calmly
  <2> QED BY <1>2, <2>1, StepDone, ReadsShow, ShowsKeeps DEF Next
<1> QED BY <1>1, <1>2

\* The store and the requests keep their shape, maps are not shared, requests that are
\* alone have read what is there, and promises are kept: the inductive invariant of the
\* services over memory.go.
THEOREM CoreCorrect == Spec => []Core
<1>1. Core /\ [Next]_vars => Core'
  BY CoreNext
<1> QED BY CoreInit, <1>1, PTL DEF Spec

\* What the services answered about a name is what the store holds, for every name that
\* nobody is working on: no update of memory.go's records is lost between two requests
\* of the handlers that did not overlap, whatever overlapped elsewhere.  What an answer
\* promises is what the request asked for, but in two cases where the program does
\* something else and the promise is what it does: a parameter of a bucket is taken for
\* the bucket (mistakenForBucket), and a revoke of the default rule keeps it (Matched).
THEOREM AnswersCorrect == Spec => []AnswersHold
<1>1. Core => AnswersHold
  BY DEF Core, Kept, Quiet, AnswersHold
<1> QED BY <1>1, CoreCorrect, PTL
-----------------------------------------------------------------------------
(* No record is deleted under those that refer to it.                       *)
Unmoved(g) == /\ req'[g].op = req[g].op /\ req'[g].key = req[g].key
              /\ req'[g].subject = req[g].subject /\ req'[g].ref = req[g].ref

\* An answered request is forgotten.
LEMMA ClearedIs ==
  ASSUME Core, NEW h, Cleared(h)
  PROVE  req'[h] = Idle /\ \A g \in Handler : g # h => req'[g] = req[g]
  BY DEF Core, Shape, Cleared

\* What is backed stays so, when nothing is deleted.
LEMMA BackedStays ==
  ASSUME DOMAIN store \subseteq DOMAIN store', raced \subseteq raced', StillHeld, NEW k, Backed(k)
  PROVE  Backed(k)'
  BY DEF Backed, Present, Raced, StillHeld

\* A task that goes on stays as it should be when no record is added that refers to its own.
LEMMA TaskStays ==
  ASSUME raced \subseteq raced', NEW g \in Handler, Unmoved(g), RefTask(g),
         req[g].op \in Referring => Backed(Key(g))',
         req[g].op \in Dropping => Raced(Key(g)) \/ \A k \in DOMAIN store' : Child(k) => Parent(k) # Key(g)
  PROVE  RefTask(g)'
<1>1. PICK l : l = Key(g)
  OBVIOUS
<1>2. Raced(l) => Raced(l)'
  BY DEF Raced
<1> QED BY <1>1, <1>2 DEF Unmoved, RefTask, Key, At, Backed, Present, Raced

\* References stay good when a request begins,
LEMMA RefsBegun ==
  ASSUME Core, Refs, StillHeld, NEW h \in Handler, NEW op, NEW k, NEW ref, Begun(h, op, k, ref), Starts(op, k, ref)
  PROVE  Refs'
<1>1. store' = store /\ raced \subseteq raced'
  BY DEF Begun
<1>2. \A g \in Handler : g # h => Unmoved(g)
  BY DEF Begun, MarkedFor, MarkedAs, Same, Unmoved
<1>3. Met'
  <2> SUFFICES ASSUME NEW f \in Handler, NEW g \in Handler, f # g, req'[f].subject \in Subject,
                      req'[g].ref = req'[f].subject
               PROVE  req'[f].subject \in raced'
    BY DEF Met
  <2>1. CASE f # h /\ g # h
    BY <1>1, <1>2, <2>1 DEF Refs, Met, Unmoved
  <2>2. CASE f = h
    BY <1>2, <2>2 DEF Begun, Unmoved
  <2>3. CASE g = h
    BY <1>2, <2>3 DEF Begun, Unmoved, Busy
  <2> QED BY <2>1, <2>2, <2>3
<1>4. \A l \in DOMAIN store' : Child(l) => Backed(l)'
  BY <1>1, BackedStays DEF Refs
<1>5. ASSUME NEW g \in Handler, g # h PROVE RefTask(g)'
  <2>1. Unmoved(g) /\ RefTask(g)
    BY <1>2, <1>5 DEF Refs
  <2>2. req[g].op \in Referring => Backed(Key(g))
    BY <2>1 DEF RefTask
  <2>3. req[g].op \in Dropping => Raced(Key(g)) \/ \A l \in DOMAIN store' : Child(l) => Parent(l) # Key(g)
    BY <1>1, <2>1 DEF RefTask
  <2>4. PICK l : l = Key(g)
    OBVIOUS
  <2>5. Backed(l) => Backed(l)'
    BY <1>1, BackedStays
  <2>6. Key(g)' = l
    BY <2>1, <2>4 DEF Unmoved, Key
  <2>7. req[g].op \in Referring => Backed(Key(g))'
    BY <2>2, <2>4, <2>5, <2>6 DEF Backed
  <2> QED BY <1>1, <2>1, <2>3, <2>7, TaskStays
<1>6. RefTask(h)'
  <2>1. req'[h].op = op /\ req'[h].key = k /\ req'[h].ref = ref
    BY DEF Begun
  <2> QED BY <1>1, <2>1 DEF Starts, RefTask, Key, At, Backed, Present, Raced, Referring, Detaching
<1> QED BY <1>3, <1>4, <1>5, <1>6 DEF Refs

\* when it goes on: DeleteRole, DeleteVpc and DeleteSecurityGroup look for what refers to
\* the record before they do,
LEMMA RefsTurned ==
  ASSUME Core, Refs, StillHeld, NEW h \in Handler, NEW op, ~At(h, "idle"), Turned(h, op), Goes(h, op)
  PROVE  Refs'
<1>1. store' = store /\ raced' = raced
  BY DEF Turned
<1>2. \A g \in Handler : g # h => req'[g] = req[g]
  BY DEF Turned
<1>3. req'[h].op = op /\ req'[h].key = req[h].key /\ req'[h].subject = req[h].subject /\ req'[h].ref = req[h].ref
  BY DEF Turned
<1>4. Met'
  BY <1>1, <1>2, <1>3 DEF Refs, Met
<1>5. \A g \in Handler : g # h => RefTask(g)'
  BY <1>1, <1>2 DEF Refs, RefTask, Key, At, Backed, Present, Raced, StillHeld
<1>6. RefTask(h)'
  <2>1. RefTask(h)
    BY DEF Refs
  <2>2. CASE req[h].op \in Referring /\ op \in Referring
    BY <1>1, <1>3, <2>1, <2>2
    DEF RefTask, Key, At, Backed, Present, Raced, StillHeld, Referring, Detaching, Dropping, ChildOps
  <2>3. CASE /\ req[h].op \notin ChildOps \cup {"adminDelete"} /\ op \in Dropping
             /\ req[h].op \in Dropping \/ \A k \in DOMAIN store : Child(k) => Parent(k) # Key(h)
    <3>1. ~Child(Key(h))
      BY <2>1, <2>3 DEF RefTask
    <3>2. Raced(Key(h)) \/ \A k \in DOMAIN store : Child(k) => Parent(k) # Key(h)
      BY <2>1, <2>3 DEF RefTask
    <3> QED BY <1>1, <1>3, <2>3, <3>1, <3>2 DEF RefTask, Key, Raced, Referring, Detaching, Dropping
  <2> QED BY <2>2, <2>3 DEF Goes
<1>7. \A k \in DOMAIN store' : Child(k) => Backed(k)'
  BY <1>1 DEF Refs, Backed, Present, Raced, StillHeld
<1> QED BY <1>4, <1>5, <1>6, <1>7 DEF Refs

\* when it is answered,
LEMMA RefsCleared ==
  ASSUME Core, Refs, NEW h \in Handler, Cleared(h), raced \subseteq raced',
         \A k \in DOMAIN store' : Child(k) => Backed(k)',
         \A g \in Handler : g # h => RefTask(g)'
  PROVE  Refs'
<1>1. req'[h] = Idle /\ \A g \in Handler : g # h => req'[g] = req[g]
  BY ClearedIs
<1>2. Met'
  BY <1>1, Blanks DEF Refs, Met
<1>3. RefTask(h)'
  BY <1>1, Blanks DEF RefTask, At, Referring, Detaching, Dropping
<1> QED BY <1>2, <1>3 DEF Refs

\* A request at work is about a subject.
LEMMA Working ==
  ASSUME Core, NEW h \in Handler, ~At(h, "idle")
  PROVE  InWorkload(Key(h)) /\ req[h].subject = SubjectOf(Key(h)) /\ req[h].subject \in Subject
<1>1. InWorkload(Key(h)) /\ req[h].subject = SubjectOf(Key(h))
  BY Blanks DEF Core, Shape, TaskOK, At
<1> QED BY <1>1, InKeys

\* when a record is written,
LEMMA RefsStored ==
  ASSUME Core, Refs, StillHeld, NEW h \in Handler, Cleared(h), UNCHANGED raced, NEW k, k = Key(h),
         DOMAIN store' = DOMAIN store \cup {k}, req[h].op \notin Detaching \cup {"adminDelete"}
  PROVE  Refs'
<1>1. req'[h] = Idle /\ \A g \in Handler : g # h => req'[g] = req[g]
  BY ClearedIs
<1>2. Child(k) => req[h].op \in Referring /\ Backed(k) /\ req[h].ref = SubjectOf(Parent(k))
  BY DEF Refs, RefTask, Cleared, ChildOps
<1>3. \A l \in DOMAIN store' : Child(l) => Backed(l)'
  BY <1>2, BackedStays DEF Refs
<1>4. ASSUME NEW g \in Handler, g # h PROVE RefTask(g)'
  <2>1. Unmoved(g) /\ RefTask(g)
    BY <1>1, <1>4 DEF Unmoved, Refs
  <2>2. PICK l : l = Key(g)
    OBVIOUS
  <2>3. Key(g)' = l
    BY <1>1, <1>4, <2>2 DEF Key
  <2>4. req[g].op \in Referring => Backed(Key(g))'
    <3>1. req[g].op \in Referring => Backed(l)
      BY <2>1, <2>2 DEF RefTask
    <3>2. Backed(l) => Backed(l)'
      BY BackedStays
    <3> QED BY <2>3, <3>1, <3>2 DEF Backed
  <2>5. ASSUME req[g].op \in Dropping
        PROVE  Raced(Key(g)) \/ \A j \in DOMAIN store' : Child(j) => Parent(j) # Key(g)
    <3>1. Raced(l) \/ \A j \in DOMAIN store : Child(j) => Parent(j) # l
      BY <2>1, <2>2, <2>5 DEF RefTask
    <3>2. CASE Child(k) /\ Parent(k) = l
      <4>1. ~At(g, "idle")
        BY <2>5 DEF At, Dropping
      <4>2. req[g].subject = SubjectOf(l) /\ req[g].subject \in Subject
        BY <2>2, <4>1, Working
      <4>3. req[g].subject \in raced
        BY <1>2, <1>4, <3>2, <4>2 DEF Refs, Met
      <4> QED BY <2>2, <4>2, <4>3 DEF Raced
    <3> QED BY <2>2, <3>1, <3>2
  <2> QED BY <2>1, <2>4, <2>5, TaskStays
<1> QED BY <1>3, <1>4, RefsCleared

\* when one is deleted,
LEMMA RefsRemoved ==
  ASSUME Core, Refs, StillHeld, NEW h \in Handler, Cleared(h), NEW k, k = Key(h), DOMAIN store' = DOMAIN store \ {k},
         raced' = raced, req[h].op \in Dropping \cup Detaching \/ (Present(k) => k \in taken')
  PROVE  Refs'
<1>1. req'[h] = Idle /\ \A g \in Handler : g # h => req'[g] = req[g]
  BY ClearedIs
<1>2. raced \subseteq raced' /\ req[h].subject = SubjectOf(k) /\ req[h].subject \in Subject
  BY Working DEF Cleared
<1>3. ASSUME NEW l, Child(l), Parent(l) = k, Present(k),
             l \in DOMAIN store \/ \E g \in Handler : g # h /\ req[g].op \in Referring /\ l = Key(g)
      PROVE  k \in taken' \/ SubjectOf(k) \in raced'
  <2>1. CASE k \in taken'
    BY <2>1
  <2>2. CASE req[h].op \in Detaching
    <3>1. Child(k)
      BY <2>2 DEF Refs, RefTask
    <3> QED BY <1>3, <3>1, Families DEF Child
  <2>3. CASE req[h].op \in Dropping /\ l \in DOMAIN store
    <3>1. RefTask(h)
      BY DEF Refs
    <3>2. Raced(k) \/ Parent(l) # k
      BY <1>3, <2>3, <3>1 DEF RefTask
    <3> QED BY <1>2, <1>3, <3>2 DEF Raced
  <2>4. ASSUME req[h].op \in Dropping, NEW g \in Handler, g # h, req[g].op \in Referring, l = Key(g)
        PROVE  SubjectOf(k) \in raced'
    <3>1. req[g].ref = SubjectOf(k)
      BY <1>3, <2>4 DEF Refs, RefTask
    <3> QED BY <1>2, <2>4, <3>1 DEF Refs, Met
  <2> QED BY <1>3, <2>1, <2>2, <2>3, <2>4
<1>4. \A l : /\ Child(l) /\ Backed(l)
             /\ l \in DOMAIN store \/ \E g \in Handler : g # h /\ req[g].op \in Referring /\ l = Key(g)
             => Backed(l)'
  BY <1>2, <1>3 DEF Backed, Present, Raced, StillHeld
<1>5. \A l \in DOMAIN store' : Child(l) => Backed(l)'
  BY <1>4 DEF Refs
<1>6. ASSUME NEW g \in Handler, g # h PROVE RefTask(g)'
  <2>1. Unmoved(g) /\ RefTask(g)
    BY <1>1, <1>6 DEF Unmoved, Refs
  <2>2. PICK l : l = Key(g)
    OBVIOUS
  <2>3. Key(g)' = l
    BY <1>1, <1>6, <2>2 DEF Key
  <2>4. req[g].op \in Referring => Backed(Key(g))'
    <3>1. req[g].op \in Referring => Backed(l)'
      BY <1>4, <1>6, <2>1, <2>2 DEF RefTask
    <3> QED BY <2>3, <3>1 DEF Backed
  <2>5. req[g].op \in Dropping => Raced(Key(g)) \/ \A j \in DOMAIN store' : Child(j) => Parent(j) # Key(g)
    BY <2>1 DEF RefTask
  <2> QED BY <1>2, <2>1, <2>4, <2>5, TaskStays
<1> QED BY <1>2, <1>5, <1>6, RefsCleared

\* ... so after every step.
LEMMA RefsKeep ==
  ASSUME Core, Refs, StillHeld, NEW h \in Handler, Effect(h)
  PROVE  Refs'
<1>1. CASE Shown
  BY <1>1 DEF Shown, Refs, Met, RefTask, Key, At, Backed, Present, Raced, StillHeld
<1>2. ASSUME NEW op, NEW k, NEW ref, Begun(h, op, k, ref), Starts(op, k, ref) PROVE Refs'
  BY <1>2, RefsBegun
<1>3. ASSUME NEW op, ~At(h, "idle"), Turned(h, op), Goes(h, op) PROVE Refs'
  BY <1>3, RefsTurned
<1>4. CASE Cleared(h) /\ UNCHANGED <<store, raced>>
  <2>1. \A g \in Handler : g # h => RefTask(g)'
    BY <1>4, ClearedIs DEF Refs, RefTask, Key, At, Backed, Present, Raced, StillHeld
  <2>2. \A k \in DOMAIN store' : Child(k) => Backed(k)'
    BY <1>4 DEF Refs, Backed, Present, Raced, StillHeld
  <2> QED BY <1>4, <2>1, <2>2, RefsCleared
<1>5. PICK k : k = Key(h)
  OBVIOUS
<1>6. ASSUME Cleared(h), UNCHANGED raced, NEW status, NEW content, Stored(h, k, status, content),
             req[h].op \notin Detaching \cup {"adminDelete"}
      PROVE  Refs'
  <2>1. DOMAIN store' = DOMAIN store \cup {k}
    BY <1>6 DEF Stored, Written, Touches
  <2> QED BY <1>5, <1>6, <2>1, RefsStored
<1>7. CASE /\ Cleared(h) /\ Removed(h, k) /\ raced' = raced
           /\ req[h].op \in Dropping \cup Detaching \/ (Present(k) => k \in taken')
  <2>1. DOMAIN store' = DOMAIN store \ {k}
    BY <1>7 DEF Removed, Written, Touches
  <2> QED BY <1>5, <1>7, <2>1, RefsRemoved
<1> QED BY <1>1, <1>2, <1>3, <1>4, <1>5, <1>6, <1>7 DEF Effect
-----------------------------------------------------------------------------
(* A VPC has its network until it is deleted.                               *)
Net ==
  /\ \A i \in VpcId : Present(VpcKey(i)) =>
        i \in drawn /\ (i \in networks \/ \E h \in Handler : Key(h) = VpcKey(i) /\ At(h, "dropVpc"))
  /\ \A h \in Handler : Key(h) \in VpcKeys => Key(h)[2] \in drawn
  /\ \A h \in Handler : At(h, "createVpc") =>
        /\ Key(h) \in VpcKeys /\ Key(h)[2] \in networks /\ ~Present(Key(h))
        /\ \A g \in Handler : g # h => Key(g) # Key(h)

NetMove(h) ==
  \/ Shown /\ UNCHANGED <<networks, drawn>>
  \/ /\ \E op, k, ref : Begun(h, op, k, ref) /\ op # "createVpc" /\ (k \in VpcKeys => Present(k))
     /\ networks' = networks /\ drawn \subseteq drawn'
  \/ \E i \in VpcId \ drawn :
       /\ Begun(h, "createVpc", VpcKey(i), Nobody)
       /\ drawn' = drawn \cup {i} /\ networks' = networks \cup {i}
  \/ /\ At(h, "deleteVpc") /\ Turned(h, "removeNetwork") /\ UNCHANGED <<networks, drawn>>
  \/ /\ At(h, "removeNetwork") /\ Turned(h, "dropVpc") /\ UNCHANGED drawn
     /\ networks' \in {networks, networks \ {Key(h)[2]}}
  \/ At(h, "deleteVpc") /\ Cleared(h) /\ UNCHANGED <<store, networks, drawn>>
  \/ /\ req[h].op \in {"createVpc", "createSubnet"} /\ Cleared(h) /\ UNCHANGED <<networks, drawn>>
     /\ \E status, content : Stored(h, Key(h), status, content)
  \/ Cleared(h) /\ Removed(h, Key(h)) /\ UNCHANGED <<networks, drawn>>

\* A request of the VPC service is about a VPC or a subnet.
LEMMA BusyVpc ==
  ASSUME Core, workload = "vpc", NEW g \in Handler, ~At(g, "idle")
  PROVE  Key(g) \in VpcKeys \cup SubnetKeys /\ (Key(g) \in VpcKeys \/ Child(Key(g)))
  BY Working, Families DEF InWorkload

\* The request of nobody is about neither.
LEMMA IdleKey ==
  ASSUME NEW g, req[g] = Idle
  PROVE  Key(g) \notin VpcKeys /\ At(g, "idle")
  BY Kinds DEF Key, Idle, At

\* A VPC's key tells its id, and the id the key.
LEMMA VpcKeyIs ==
  /\ \A i \in VpcId : VpcKey(i) \in VpcKeys /\ VpcKey(i)[2] = i
  /\ \A k \in VpcKeys : k[2] \in VpcId /\ k = VpcKey(k[2])
  BY DEF VpcKeys, VpcKey

LEMMA AnswerIs ==
  ASSUME NEW h \in Handler, ~At(h, "idle"), NEW promise, Answer(h, promise)
  PROVE  Cleared(h)
  BY DEF Cleared, Answer

\* The steps of the VPC service, by what they mean for networks.
LEMMA VpcMoves ==
  ASSUME Calmly, workload = "vpc", NEW h \in Handler, VpcStep(h)
  PROVE  NetMove(h)
<1>1. \A i \in VpcId : InWorkload(VpcKey(i)) /\ Unique(VpcKey(i)) /\ VpcKey(i) \in VpcKeys
  BY Kinds DEF InWorkload, VpcKeys
<1>2. \A v \in VpcId, i \in SubnetId :
        InWorkload(SubnetKey(v, i)) /\ Unique(SubnetKey(v, i)) /\ SubnetKey(v, i) \notin VpcKeys
  <2>1. \A v \in VpcId, i \in SubnetId : SubnetKey(v, i) \in SubnetKeys
    BY DEF SubnetKeys
  <2> QED BY <2>1, Kinds DEF InWorkload
<1>3. PICK k : k = Key(h)
  OBVIOUS
<1>4. ASSUME NEW op \in {"createVpc", "deleteVpc", "deleteSubnet"}, NEW l, InWorkload(l), Unique(l),
             Begin(h, op, SubjectOf(l), [key |-> l])
      PROVE  Begun(h, op, l, Nobody)
  <2>1. op \notin Copiers \cup {"idle"}
    BY DEF Copiers
  <2> QED BY <1>4, <2>1, OneKey, BeginKey
<1>5. ASSUME NEW op \in {"createVpc", "createSubnet"}, At(h, op), PutBare(Key(h)), Answer(h, Record(Key(h), {})),
             UNCHANGED <<networks, drawn>>
      PROVE  NetMove(h)
  <2>1. Busily(h, k) /\ PutBare(k)
    BY <1>3, <1>5, Going
  <2>2. PICK status, content : status = "available" /\ content = {}
    OBVIOUS
  <2>3. Stored(h, Key(h), status, content)
    BY <1>3, <2>1, <2>2, PutBareStores
  <2>4. Cleared(h) /\ req[h].op \in {"createVpc", "createSubnet"}
    BY <1>5, AnswerIs DEF At
  <2> QED BY <1>5, <2>3, <2>4 DEF NetMove
<1>6. ASSUME NEW op \in {"dropVpc", "deleteSubnet"}, At(h, op), Delete(Key(h)), Answer(h, Gone),
             UNCHANGED <<networks, drawn>>
      PROVE  NetMove(h)
  <2>1. Busily(h, k) /\ Delete(k)
    BY <1>3, <1>6, Going
  <2>2. Removed(h, Key(h)) /\ Cleared(h)
    BY <1>3, <1>6, <2>1, DeleteRemoves, AnswerIs DEF At
  <2> QED BY <1>6, <2>2 DEF NetMove
<1>7. CASE createVpc(h)
  <2>1. ASSUME NEW i \in VpcId \ drawn, Begin(h, "createVpc", SubjectOf(VpcKey(i)), [key |-> VpcKey(i)]),
               drawn' = drawn \cup {i}, networks' = networks \cup {i}
        PROVE  NetMove(h)
    <3>1. Begun(h, "createVpc", VpcKey(i), Nobody)
      BY <1>1, <1>4, <2>1
    <3> QED BY <2>1, <3>1 DEF NetMove
  <2> QED BY <1>5, <1>7, <2>1 DEF createVpc
<1>8. CASE FindVpc(h)
  <2>1. PICK i \in VpcId : /\ IF Present(VpcKey(i))
                              THEN Begin(h, "deleteVpc", SubjectOf(VpcKey(i)), [key |-> VpcKey(i)])
                              ELSE Shows({SubjectOf(VpcKey(i))})
                           /\ UNCHANGED <<networks, drawn>>
    BY <1>8 DEF FindVpc
  <2>2. CASE Present(VpcKey(i))
    <3>1. Begun(h, "deleteVpc", VpcKey(i), Nobody)
      BY <1>1, <1>4, <2>1, <2>2
    <3>2. PICK op, l, ref : op = "deleteVpc" /\ l = VpcKey(i) /\ ref = Nobody
      OBVIOUS
    <3>3. Begun(h, op, l, ref) /\ op # "createVpc" /\ (l \in VpcKeys => Present(l))
      BY <2>2, <3>1, <3>2
    <3> QED BY <2>1, <3>3 DEF NetMove
  <2>3. CASE Shows({SubjectOf(VpcKey(i))})
    BY <2>1, <2>3 DEF NetMove, Shows, Shown
  <2> QED BY <2>1, <2>2, <2>3
<1>9. CASE LookForSubnets(h)
  <2>1. CASE At(h, "deleteVpc") /\ Goto(h, "removeNetwork") /\ UNCHANGED <<store, maps>>
    <3>1. Turned(h, "removeNetwork")
      BY <2>1, GotoDone DEF Copiers
    <3> QED BY <1>9, <2>1, <3>1 DEF NetMove, LookForSubnets
  <2>2. CASE At(h, "deleteVpc") /\ Answer(h, Promised(h)) /\ UNCHANGED <<store, maps>>
    <3>1. Cleared(h)
      BY <2>2, AnswerIs DEF At
    <3> QED BY <1>9, <2>2, <3>1 DEF NetMove, LookForSubnets
  <2> QED BY <1>9, <2>1, <2>2 DEF LookForSubnets
<1>10. CASE RemoveNetwork(h)
  <2>1. /\ At(h, "removeNetwork") /\ Goto(h, "dropVpc") /\ UNCHANGED <<store, maps, drawn>>
        /\ networks' \in {networks, networks \ {Key(h)[2]}}
    BY <1>10 DEF RemoveNetwork
  <2>2. Turned(h, "dropVpc")
    BY <2>1, GotoDone DEF Copiers
  <2> QED BY <2>1, <2>2 DEF NetMove
<1>11. CASE DropVpc(h)
  BY <1>6, <1>11 DEF DropVpc
<1>12. CASE createSubnet(h)
  <2>1. ASSUME NEW v \in VpcId, NEW i \in SubnetId, drawn' = drawn \cup {i}, UNCHANGED networks,
               Begin(h, "createSubnet", SubjectOf(SubnetKey(v, i)),
                     [key |-> SubnetKey(v, i), ref |-> SubjectOf(VpcKey(v))])
        PROVE  NetMove(h)
    <3>1. PICK op, l, ref : op = "createSubnet" /\ l = SubnetKey(v, i) /\ ref = SubjectOf(VpcKey(v))
      OBVIOUS
    <3>2. op \notin Copiers \cup {"idle"} /\ InWorkload(l) /\ Unique(l) /\ l \notin VpcKeys
      BY <1>2, <3>1 DEF Copiers
    <3>3. Begin(h, op, SubjectOf(l), [key |-> l, ref |-> ref])
      BY <2>1, <3>1
    <3>4. Begun(h, op, l, ref)
      BY <3>2, <3>3, BeginRef
    <3>5. op # "createVpc" /\ networks' = networks /\ drawn \subseteq drawn'
      BY <2>1, <3>1
    <3> QED BY <3>2, <3>4, <3>5 DEF NetMove
  <2> QED BY <1>5, <1>12, <2>1 DEF createSubnet
<1>13. CASE deleteSubnet(h)
  <2>1. ASSUME NEW v \in VpcId, NEW i \in SubnetId,
               IF Present(SubnetKey(v, i))
               THEN Begin(h, "deleteSubnet", SubjectOf(SubnetKey(v, i)), [key |-> SubnetKey(v, i)])
               ELSE Shows({SubjectOf(SubnetKey(v, i))}),
               UNCHANGED <<networks, drawn>>
        PROVE  NetMove(h)
    <3>1. CASE Begin(h, "deleteSubnet", SubjectOf(SubnetKey(v, i)), [key |-> SubnetKey(v, i)])
      <4>1. PICK op, l, ref : op = "deleteSubnet" /\ l = SubnetKey(v, i) /\ ref = Nobody
        OBVIOUS
      <4>2. Begun(h, op, l, ref) /\ op # "createVpc" /\ l \notin VpcKeys
        BY <1>2, <1>4, <3>1, <4>1
      <4> QED BY <2>1, <4>2 DEF NetMove
    <3>2. CASE Shows({SubjectOf(SubnetKey(v, i))})
      BY <2>1, <3>2 DEF NetMove, Shows, Shown
    <3> QED BY <2>1, <3>1, <3>2
  <2> QED BY <1>6, <1>13, <2>1 DEF deleteSubnet
<1> QED BY <1>7, <1>8, <1>9, <1>10, <1>11, <1>12, <1>13 DEF VpcStep, deleteVpc

\* ... and the admin API, which deletes the record of a VPC and leaves its network.
LEMMA AdminMoves ==
  ASSUME Calmly, workload = "vpc", NEW h \in Handler, DeleteResourceHandler(h), UNCHANGED <<networks, drawn>>
  PROVE  NetMove(h)
<1>1. CASE \E k \in DOMAIN store : Begun(h, "adminDelete", k, Nobody)
  <2>1. PICK op, k, ref : op = "adminDelete" /\ k \in DOMAIN store /\ Begun(h, op, k, ref)
    BY <1>1
  <2>2. op # "createVpc" /\ Present(k)
    BY <2>1 DEF Present
  <2> QED BY <2>1, <2>2 DEF NetMove
<1>2. CASE At(h, "adminDelete") /\ Removed(h, Key(h)) /\ req' = [req EXCEPT ![h] = Idle]
  <2>1. Cleared(h)
    BY <1>2 DEF Cleared, At
  <2> QED BY <1>2, <2>1 DEF NetMove
<1> QED BY <1>1, <1>2, AdminKeeps

\* A request begins: createVpc with an id that has never been drawn.
LEMMA NetBegun ==
  ASSUME Core, Net, NEW h \in Handler, NEW op, NEW k, NEW ref, Begun(h, op, k, ref),
         networks \subseteq networks', drawn \subseteq drawn',
         k \in VpcKeys => k[2] \in drawn' /\ (op # "createVpc" => Present(k)),
         op = "createVpc" => /\ k \in VpcKeys /\ k[2] \in networks' /\ ~Present(k)
                             /\ \A g \in Handler : Key(g) # k
  PROVE  Net'
<1>1. store' = store /\ req[h] = Idle /\ req'[h].op = op /\ req'[h].key = k
  BY DEF Begun
<1>2. \A g \in Handler : g # h => req'[g].op = req[g].op /\ req'[g].key = req[g].key
  BY DEF Begun, MarkedFor, MarkedAs, Same
<1>3. At(h, "idle")
  BY <1>1, IdleKey
<1>4. ASSUME NEW i \in VpcId, VpcKey(i) \in DOMAIN store
      PROVE  i \in drawn' /\ (i \in networks' \/ \E g \in Handler : req'[g].key = VpcKey(i) /\ req'[g].op = "dropVpc")
  <2>1. i \in drawn /\ (i \in networks \/ \E g \in Handler : Key(g) = VpcKey(i) /\ At(g, "dropVpc"))
    BY <1>4 DEF Net, Present
  <2>2. ASSUME NEW g \in Handler, Key(g) = VpcKey(i), At(g, "dropVpc")
        PROVE  req'[g].key = VpcKey(i) /\ req'[g].op = "dropVpc"
    <3>1. g # h
      BY <1>3, <2>2 DEF At
    <3> QED BY <1>2, <2>2, <3>1 DEF Key, At
  <2> QED BY <2>1, <2>2
<1>5. \A g \in Handler : req'[g].key \in VpcKeys => req'[g].key[2] \in drawn'
  BY <1>1, <1>2 DEF Net, Key
<1>6. ASSUME NEW g \in Handler, req'[g].op = "createVpc"
      PROVE  /\ req'[g].key \in VpcKeys /\ req'[g].key[2] \in networks' /\ req'[g].key \notin DOMAIN store
             /\ \A f \in Handler : f # g => req'[f].key # req'[g].key
  <2>1. CASE g = h
    BY <1>1, <1>2, <1>6, <2>1 DEF Present, Key
  <2>2. CASE g # h
    <3>1. /\ Key(g) \in VpcKeys /\ Key(g)[2] \in networks /\ ~Present(Key(g))
          /\ \A f \in Handler : f # g => Key(f) # Key(g)
      BY <1>2, <1>6, <2>2 DEF Net, At
    <3>2. k # Key(g)
      BY <3>1
    <3> QED BY <1>1, <1>2, <2>2, <3>1, <3>2 DEF Key, Present
  <2> QED BY <2>1, <2>2
<1> QED BY <1>1, <1>4, <1>5, <1>6 DEF Net, Present, Key, At

\* h goes on or is answered, and was not at dropVpc; nothing is added to the store.
LEMMA NetGoes ==
  ASSUME Net, NEW h \in Handler, NEW r, \A g \in Handler : req'[g] = IF g = h THEN r ELSE req[g],
         ~At(h, "dropVpc"), r.op # "createVpc", r.key = Key(h) \/ r = Idle, UNCHANGED <<store, drawn>>,
         \/ networks' = networks
         \/ Key(h) \in VpcKeys /\ r.key = Key(h) /\ r.op = "dropVpc" /\ networks' = networks \ {Key(h)[2]}
  PROVE  Net'
<1>1. ASSUME NEW i \in VpcId, VpcKey(i) \in DOMAIN store
      PROVE  i \in drawn /\ (i \in networks' \/ \E g \in Handler : req'[g].key = VpcKey(i) /\ req'[g].op = "dropVpc")
  <2>1. i \in drawn /\ (i \in networks \/ \E g \in Handler : g # h /\ Key(g) = VpcKey(i) /\ At(g, "dropVpc"))
    BY <1>1 DEF Net, Present
  <2>2. CASE i \in networks /\ i \notin networks'
    <3>1. Key(h) = VpcKey(i)
      BY <2>2, VpcKeyIs
    <3> QED BY <2>1, <2>2, <3>1
  <2>3. CASE i \notin networks
    BY <2>1, <2>3 DEF Key, At
  <2> QED BY <2>1, <2>2, <2>3
<1>2. r.key \in VpcKeys => r.key[2] \in drawn
  BY Kinds DEF Net, Idle
<1>3. \A g \in Handler : req'[g].key \in VpcKeys => req'[g].key[2] \in drawn
  BY <1>2 DEF Net, Key
<1>4. ASSUME NEW g \in Handler, req'[g].op = "createVpc"
      PROVE  /\ req'[g].key \in VpcKeys /\ req'[g].key[2] \in networks' /\ req'[g].key \notin DOMAIN store
             /\ \A f \in Handler : f # g => req'[f].key # req'[g].key
  <2>1. g # h /\ req'[g] = req[g]
    BY <1>4
  <2>2. /\ Key(g) \in VpcKeys /\ Key(g)[2] \in networks /\ ~Present(Key(g))
        /\ \A f \in Handler : f # g => Key(f) # Key(g)
    BY <1>4, <2>1 DEF Net, At
  <2>3. r.key # Key(g)
    BY <2>1, <2>2, Kinds DEF Idle
  <2>4. Key(g)[2] \in networks'
    BY <2>1, <2>2, VpcKeyIs
  <2> QED BY <2>1, <2>2, <2>3, <2>4 DEF Key, Present
<1> QED BY <1>1, <1>3, <1>4 DEF Net, Present, Key, At

\* h is answered, with the record under its key put or deleted.
LEMMA NetAnswered ==
  ASSUME Core, Net, NEW h \in Handler, Cleared(h), UNCHANGED <<networks, drawn>>, NEW k, k = Key(h),
         \/ DOMAIN store' = DOMAIN store \ {k}
         \/ DOMAIN store' = DOMAIN store \cup {k} /\ ~At(h, "dropVpc") /\ (k \in VpcKeys => At(h, "createVpc"))
  PROVE  Net'
<1>1. req'[h] = Idle /\ \A g \in Handler : g # h => req'[g] = req[g]
  BY ClearedIs
<1>2. ASSUME NEW i \in VpcId, VpcKey(i) \in DOMAIN store'
      PROVE  i \in drawn /\ (i \in networks \/ \E g \in Handler : req'[g].key = VpcKey(i) /\ req'[g].op = "dropVpc")
  <2>1. CASE VpcKey(i) \in DOMAIN store
    <3>1. i \in drawn /\ (i \in networks \/ \E g \in Handler : Key(g) = VpcKey(i) /\ At(g, "dropVpc"))
      BY <2>1 DEF Net, Present
    <3>2. ASSUME NEW g \in Handler, Key(g) = VpcKey(i), At(g, "dropVpc") PROVE g # h
      BY <1>2, <3>2
    <3> QED BY <1>1, <3>1, <3>2 DEF Key, At
  <2>2. CASE VpcKey(i) \notin DOMAIN store
    <3>1. k = VpcKey(i) /\ At(h, "createVpc")
      BY <1>2, <2>2, VpcKeyIs
    <3>2. Key(h) \in VpcKeys /\ Key(h)[2] = i
      BY <3>1, VpcKeyIs
    <3> QED BY <3>1, <3>2 DEF Net
  <2> QED BY <2>1, <2>2
<1>3. \A g \in Handler : req'[g].key \in VpcKeys => req'[g].key[2] \in drawn
  BY <1>1, Kinds DEF Net, Key, Idle
<1>4. ASSUME NEW g \in Handler, req'[g].op = "createVpc"
      PROVE  /\ req'[g].key \in VpcKeys /\ req'[g].key[2] \in networks /\ req'[g].key \notin DOMAIN store'
             /\ \A f \in Handler : f # g => req'[f].key # req'[g].key
  <2>1. g # h /\ req'[g] = req[g]
    BY <1>1, <1>4, Blanks
  <2>2. /\ Key(g) \in VpcKeys /\ Key(g)[2] \in networks /\ ~Present(Key(g))
        /\ \A f \in Handler : f # g => Key(f) # Key(g)
    BY <1>4, <2>1 DEF Net, At
  <2>3. Idle.key # Key(g)
    BY <2>2, Kinds DEF Idle
  <2> QED BY <1>1, <2>1, <2>2, <2>3 DEF Key, Present
<1> QED BY <1>2, <1>3, <1>4 DEF Net, Present, Key, At

\* A VPC keeps its network through every step.
LEMMA NetKeeps ==
  ASSUME Core, Refs, Net, workload = "vpc", NEW h \in Handler, NetMove(h)
  PROVE  Net'
<1>1. CASE Shown /\ UNCHANGED <<networks, drawn>>
  BY <1>1 DEF Shown, Net, Present, Key, At
<1>2. ASSUME NEW op, NEW k, NEW ref, Begun(h, op, k, ref), op # "createVpc", k \in VpcKeys => Present(k),
             networks' = networks, drawn \subseteq drawn'
      PROVE  Net'
  <2>1. k \in VpcKeys => k[2] \in drawn
    BY <1>2, VpcKeyIs DEF Net
  <2> QED BY <1>2, <2>1, NetBegun
<1>3. ASSUME NEW i \in VpcId \ drawn, Begun(h, "createVpc", VpcKey(i), Nobody),
             drawn' = drawn \cup {i}, networks' = networks \cup {i}
      PROVE  Net'
  <2>1. PICK op, k : op = "createVpc" /\ k = VpcKey(i)
    OBVIOUS
  <2>2. k \in VpcKeys /\ k[2] = i
    BY <2>1, VpcKeyIs
  <2>3. ~Present(k) /\ \A g \in Handler : Key(g) # k
    BY <2>1, <2>2 DEF Net
  <2>4. Begun(h, op, k, Nobody)
    BY <1>3, <2>1
  <2> QED BY <1>3, <2>1, <2>2, <2>3, <2>4, NetBegun
<1>4. ASSUME NEW op \in {"removeNetwork", "dropVpc"}, ~At(h, "dropVpc"), Turned(h, op), drawn' = drawn,
             \/ networks' = networks
             \/ Key(h) \in VpcKeys /\ op = "dropVpc" /\ networks' = networks \ {Key(h)[2]}
      PROVE  Net'
  <2>1. PICK r : r = req'[h]
    OBVIOUS
  <2>2. /\ \A g \in Handler : req'[g] = IF g = h THEN r ELSE req[g]
        /\ r.op = op /\ r.key = Key(h) /\ store' = store
    BY <1>4, <2>1 DEF Turned, Key
  <2> QED BY <1>4, <2>2, NetGoes
<1>5. CASE At(h, "deleteVpc") /\ Turned(h, "removeNetwork") /\ UNCHANGED <<networks, drawn>>
  BY <1>4, <1>5 DEF At
<1>6. CASE /\ At(h, "removeNetwork") /\ Turned(h, "dropVpc") /\ UNCHANGED drawn
           /\ networks' \in {networks, networks \ {Key(h)[2]}}
  <2>1. ~Child(Key(h)) /\ ~At(h, "idle")
    BY <1>6 DEF Refs, RefTask, At, ChildOps, Referring, Detaching
  <2>2. Key(h) \in VpcKeys
    BY <2>1, BusyVpc
  <2> QED BY <1>4, <1>6, <2>2 DEF At
<1>7. CASE At(h, "deleteVpc") /\ Cleared(h) /\ UNCHANGED <<store, networks, drawn>>
  <2>1. \A g \in Handler : req'[g] = IF g = h THEN Idle ELSE req[g]
    BY <1>7, ClearedIs
  <2> QED BY <1>7, <2>1, NetGoes, Blanks DEF At
<1>8. PICK k : k = Key(h)
  OBVIOUS
<1>9. ASSUME req[h].op \in {"createVpc", "createSubnet"}, Cleared(h), UNCHANGED <<networks, drawn>>,
             NEW status, NEW content, Stored(h, k, status, content)
      PROVE  Net'
  <2>1. DOMAIN store' = DOMAIN store \cup {k} /\ ~At(h, "dropVpc")
    BY <1>9 DEF Stored, Written, Touches, At
  <2>2. k \in VpcKeys => At(h, "createVpc")
    <3>1. req[h].op = "createSubnet" => Child(k)
      BY <1>8 DEF Refs, RefTask, Referring
    <3> QED BY <1>9, <3>1, Families DEF At
  <2> QED BY <1>8, <1>9, <2>1, <2>2, NetAnswered
<1>10. CASE Cleared(h) /\ Removed(h, k) /\ UNCHANGED <<networks, drawn>>
  <2>1. DOMAIN store' = DOMAIN store \ {k}
    BY <1>10 DEF Removed, Written, Touches
  <2> QED BY <1>8, <1>10, <2>1, NetAnswered
<1> QED BY <1>1, <1>2, <1>3, <1>5, <1>6, <1>7, <1>8, <1>9, <1>10 DEF NetMove
-----------------------------------------------------------------------------
(* A bucket record stands for a bucket of MinIO.                            *)
Keeping == {"recordBucket", "readBucket", "configure", "putOther", "deleteConfig"}
Forgotten(k) == \E h \in Handler : At(h, "forgetBucket") /\ Key(h) = k
Known(k) == k[2] \in minio \/ k \in left \/ SubjectOf(k) \in raced \/ Forgotten(k)
Minio ==
  /\ \A k \in DOMAIN store : Known(k)
  /\ \A h \in Handler : req[h].op \in Keeping => Key(h)[2] \in minio \/ SubjectOf(Key(h)) \in raced
  /\ objects \subseteq minio \X Object

\* The bucket of k is there, and no other is taken; it is taken, empty; MinIO has made or
\* taken it and nobody has heard of that.
Backs(k) == minio \subseteq minio' /\ k[2] \in minio' /\ \A l \in left : l \in left' \/ l[2] \in minio'
Takes(k) == minio' = minio \ {k[2]} /\ left \subseteq left' /\ \A o \in Object : <<k[2], o>> \notin objects
Silently(k) ==
  /\ UNCHANGED <<store, objects>> /\ raced \subseteq raced'
  /\ \A g \in Handler : req'[g].op = req[g].op /\ req'[g].key = req[g].key
  /\ \/ Backs(k)
     \/ /\ Takes(k) /\ BucketRecords(k[2]) \subseteq left'
        /\ Busy(SubjectOf(k)) # {} => SubjectOf(k) \in raced'

BucketMove(h) ==
  \/ Shown /\ UNCHANGED <<minio, left>> /\ objects' \subseteq objects \cup (minio \X Object)
  \/ \E k, op, ref :
       /\ k \in BucketKeys /\ Begun(h, op, k, ref) /\ UNCHANGED objects
       /\ \/ op = "adminDelete" /\ UNCHANGED <<minio, left>>
          \/ op \in Keeping /\ Backs(k)
          \/ op = "forgetBucket" /\ ref = SubjectOf(k) /\ Takes(k) /\ BucketRecords(k[2]) \ {k} \subseteq left'
  \/ \E k \in BucketKeys : Silently(k)
  \/ At(h, "readBucket") /\ Turned(h, "configure") /\ UNCHANGED bucketVars
  \/ At(h, "readBucket") /\ Cleared(h) /\ UNCHANGED <<store, raced, bucketVars>>
  \/ req[h].op \in Keeping /\ Cleared(h) /\ Written(h, Key(h)) /\ UNCHANGED <<raced, bucketVars>>
  \/ req[h].op \in {"forgetBucket", "adminDelete"} /\ Cleared(h) /\ Removed(h, Key(h)) /\ UNCHANGED <<raced, bucketVars>>

\* An answer of MinIO that nobody hears: those who work on the bucket see that they are
\* not alone.
LEMMA UnheardMarks ==
  ASSUME Core, NEW s \in Subject, Unheard(s)
  PROVE  /\ \A g \in Handler : req'[g].op = req[g].op /\ req'[g].key = req[g].key
         /\ UNCHANGED store /\ raced \subseteq raced' /\ (Busy(s) # {} => s \in raced')
<1>1. Shape
  BY DEF Core
<1>2. \A g \in Handler : MarkedFor(g, s)
  BY <1>1, MarkedIs DEF Unheard, MarkedFor
<1> QED BY <1>2 DEF Unheard, MarkedFor, MarkedAs, Same

\* The steps of S3 and Cloud Storage, by what they mean for MinIO.
LEMMA BucketMoves ==
  ASSUME Calmly, workload = "buckets", NEW h \in Handler, BucketStep(h)
  PROVE  BucketMove(h)
<1>1. \A b \in Bucket : /\ InWorkload(S3Key(b)) /\ S3Key(b) \in BucketKeys
                        /\ InWorkload(GcsKey(b)) /\ GcsKey(b) \in BucketKeys
  BY DEF InWorkload, BucketKeys
<1>2. PICK k : k = Key(h)
  OBVIOUS
<1>3. ASSUME NEW op \in Keeping \cup {"forgetBucket"}, op # "configure",
             NEW b \in Bucket, NEW l \in {S3Key(b), GcsKey(b)}, NEW arg, BeginBucket(h, op, l, [arg |-> arg])
      PROVE  Begun(h, op, l, SubjectOf(l)) /\ l \in BucketKeys
  <2>1. op \notin Copiers \cup {"idle"}
    BY <1>3 DEF Copiers, Keeping
  <2>2. InWorkload(l) /\ l \in BucketKeys
    BY <1>1
  <2> QED BY <1>3, <2>1, <2>2, BeginBucketKeeps
<1>4. ASSUME NEW b \in Bucket, NEW l \in {S3Key(b), GcsKey(b)}, MinIOCreates(h, l) PROVE BucketMove(h)
  <2>1. PICK op, ref : op = "recordBucket" /\ ref = SubjectOf(l)
    OBVIOUS
  <2>2. Backs(l) /\ UNCHANGED objects /\ l \in BucketKeys
    <3>1. \A m \in {S3Key(l[2]), GcsKey(l[2])} : m[2] = l[2]
      BY DEF S3Key, GcsKey
    <3> QED BY <1>1, <1>4, <3>1 DEF MinIOCreates, Backs
  <2>3. CASE BeginBucket(h, "recordBucket", l, [arg |-> {}])
    <3>1. Begun(h, op, l, ref) /\ op \in Keeping
      BY <1>3, <2>1, <2>3 DEF Keeping
    <3> QED BY <2>2, <3>1 DEF BucketMove
  <2>4. CASE Unheard(SubjectOf(l))
    <3>1. SubjectOf(l) \in Subject
      BY <1>1, InKeys
    <3> QED BY <2>2, <2>4, <3>1, UnheardMarks DEF BucketMove, Silently, Calmly
  <2> QED BY <1>4, <2>3, <2>4 DEF MinIOCreates
<1>5. ASSUME NEW b \in Bucket, NEW l \in {S3Key(b), GcsKey(b)}, MinIODeletes(h, l) PROVE BucketMove(h)
  <2>1. PICK op, ref : op = "forgetBucket" /\ ref = SubjectOf(l)
    OBVIOUS
  <2>2. Takes(l) /\ UNCHANGED objects /\ l \in BucketKeys
    BY <1>1, <1>5 DEF MinIODeletes, Takes
  <2>3. CASE BeginBucket(h, "forgetBucket", l, [arg |-> {}]) /\ left' = left \cup (BucketRecords(l[2]) \ {l})
    <3>1. Begun(h, op, l, ref)
      BY <1>3, <2>1, <2>3
    <3> QED BY <2>1, <2>2, <2>3, <3>1 DEF BucketMove
  <2>4. CASE Unheard(SubjectOf(l)) /\ left' = left \cup BucketRecords(l[2])
    <3>1. SubjectOf(l) \in Subject
      BY <1>1, InKeys
    <3> QED BY <2>2, <2>4, <3>1, UnheardMarks DEF BucketMove, Silently, Calmly
  <2> QED BY <1>5, <2>3, <2>4 DEF MinIODeletes
<1>6. ASSUME NEW b \in Bucket, NEW op \in {"readBucket", "putOther", "deleteConfig"}, NEW c, MinIOConfigures(h, op, b, c)
      PROVE  BucketMove(h)
  <2>1. PICK l, ref : l = S3Key(b) /\ ref = SubjectOf(l)
    OBVIOUS
  <2>2. op \in Keeping /\ op # "configure" /\ UNCHANGED <<minio, objects, left>>
    BY <1>6 DEF MinIOConfigures, Keeping, bucketVars
  <2>3. Begun(h, op, l, ref) /\ l \in BucketKeys
    BY <1>3, <1>6, <2>1, <2>2 DEF MinIOConfigures
  <2>4. Backs(l)
    BY <1>6, <2>1, <2>2 DEF MinIOConfigures, S3Key, Backs
  <2> QED BY <2>2, <2>3, <2>4 DEF BucketMove
<1>7. ASSUME NEW op \in Keeping \cup {"forgetBucket"}, At(h, op)
      PROVE  ~At(h, "idle") /\ Busily(h, k)
  <2>1. op # "idle"
    BY DEF Keeping
  <2> QED BY <1>2, <1>7, <2>1, Going DEF At
<1>8. CASE createBucketResource(h)
  <2>1. At(h, "recordBucket") /\ PutBare(k) /\ UNCHANGED <<raced, bucketVars>> /\ Answer(h, Over(Record(Key(h), {}), Promised(h)))
    BY <1>2, <1>8 DEF createBucketResource, Answer
  <2>2. req[h].op \in Keeping /\ ~At(h, "idle") /\ Busily(h, k)
    BY <1>7, <2>1 DEF Keeping, At
  <2>3. Written(h, Key(h)) /\ Cleared(h)
    BY <1>2, <2>1, <2>2, PutBareStores DEF Stored, Cleared, Answer
  <2> QED BY <2>1, <2>2, <2>3 DEF BucketMove
<1>9. CASE deleteBucketResource(h)
  <2>1. At(h, "forgetBucket") /\ Delete(k) /\ UNCHANGED <<raced, bucketVars>> /\ req' = [req EXCEPT ![h] = Idle]
    BY <1>2, <1>9 DEF deleteBucketResource, Answer
  <2>2. Busily(h, k) /\ Cleared(h) /\ req[h].op \in {"forgetBucket", "adminDelete"}
    BY <1>7, <2>1 DEF Cleared, At
  <2> QED BY <1>2, <2>1, <2>2, DeleteRemoves DEF BucketMove
<1>10. CASE At(h, "readBucket") /\ UNCHANGED <<store, maps, said, raced, bucketVars>>
            /\ req' = [req EXCEPT ![h].op = "configure", ![h].copy = store[Key(h)]]
  <2>1. Busily(h, k)
    BY <1>7, <1>10 DEF Keeping
  <2>2. Shape /\ TaskOK(h)
    BY <2>1 DEF Busily, Core, Shape
  <2>3. /\ req'[h].op = "configure" /\ req'[h].key = req[h].key /\ req'[h].subject = req[h].subject
        /\ req'[h].ref = req[h].ref
    BY <1>10, <2>2 DEF Shape, TaskOK, Fields
  <2>4. \A g \in Handler : g # h => req'[g] = req[g]
    BY <1>10, <2>2 DEF Shape
  <2> QED BY <1>10, <2>3, <2>4 DEF BucketMove, Turned
<1>11. CASE At(h, "readBucket") /\ Answer(h, Promised(h)) /\ UNCHANGED <<store, maps, bucketVars>>
  <2>1. Cleared(h) /\ raced' = raced
    BY <1>7, <1>11 DEF Cleared, Answer, Keeping
  <2> QED BY <1>11, <2>1 DEF BucketMove
<1>12. CASE /\ At(h, "configure") /\ UNCHANGED bucketVars
            /\ PutCopy(h, Content(req[h].copy) \cup req[h].arg)
            /\ Answer(h, Over(Record(Key(h), PromisedContent(h) \cup req[h].arg), Promised(h)))
  <2>1. Busily(h, k) /\ req[h].op \in Copiers \cap Keeping
    BY <1>7, <1>12 DEF At, Copiers, Keeping
  <2>2. PICK content : content = Content(req[h].copy) \cup req[h].arg
    OBVIOUS
  <2>3. PutCopy(h, content)
    BY <1>12, <2>2
  <2>4. Written(h, Key(h))
    BY <1>2, <2>1, <2>3, PutCopyStores DEF Stored
  <2>5. Cleared(h) /\ raced' = raced
    BY <1>7, <1>12 DEF Cleared, Answer, Keeping
  <2> QED BY <1>12, <2>1, <2>4, <2>5 DEF BucketMove
<1>13. CASE mistakenForBucket(h)
  <2>1. req[h].op \in Keeping /\ Busily(h, k) /\ ~At(h, "idle")
    BY <1>7, <1>13 DEF mistakenForBucket, At, Keeping
  <2>2. Written(h, Key(h))
    <3>1. CASE PutBare(k)
      BY <1>2, <2>1, <3>1, PutBareStores DEF Stored
    <3>2. CASE Delete(k)
      BY <1>2, <2>1, <3>2, DeleteRemoves DEF Removed
    <3> QED BY <1>2, <1>13, <3>1, <3>2 DEF mistakenForBucket
  <2>3. Cleared(h) /\ UNCHANGED <<raced, bucketVars>>
    BY <1>13, <2>1 DEF mistakenForBucket, Cleared, Answer
  <2> QED BY <2>1, <2>2, <2>3 DEF BucketMove
<1>14. CASE updateBucketConfig(h)
  BY <1>10, <1>11, <1>12, <1>14 DEF updateBucketConfig
<1>15. CASE S3Step(h) \/ handleCreateBucket(h) \/ handleDeleteBucket(h)
  BY <1>4, <1>5, <1>6, <1>13, <1>14, <1>15 DEF S3Step, handleCreateBucket, handleDeleteBucket
<1>16. CASE handleObjectUpload \/ handleObjectCopy \/ handleObjectDelete
  <2>1. UNCHANGED <<recVars, minio, left>> /\ objects' \subseteq objects \cup (minio \X Object)
    BY <1>16 DEF handleObjectUpload, handleObjectCopy, handleObjectDelete
  <2> QED BY <2>1 DEF BucketMove, Shown, recVars
<1> QED BY <1>8, <1>9, <1>15, <1>16 DEF BucketStep

\* ... and the admin API, which forgets a bucket that MinIO keeps.
LEMMA AdminForgets ==
  ASSUME Calmly, workload = "buckets", NEW h \in Handler, DeleteResourceHandler(h), UNCHANGED bucketVars
  PROVE  BucketMove(h)
<1>1. CASE \E k \in DOMAIN store : Begun(h, "adminDelete", k, Nobody)
  <2>1. PICK op, k, ref : op = "adminDelete" /\ k \in DOMAIN store /\ Begun(h, op, k, ref)
    BY <1>1
  <2>2. k \in BucketKeys
    BY <2>1 DEF Calmly, Core, Shape, StoreOK, InWorkload
  <2> QED BY <2>1, <2>2 DEF BucketMove, bucketVars
<1>2. CASE At(h, "adminDelete") /\ Removed(h, Key(h)) /\ req' = [req EXCEPT ![h] = Idle] /\ raced' = raced
  <2>1. Cleared(h) /\ req[h].op \in {"forgetBucket", "adminDelete"}
    BY <1>2 DEF Cleared, At
  <2> QED BY <1>2, <2>1 DEF BucketMove
<1> QED BY <1>1, <1>2, AdminKeeps

\* Two records of a bucket's name are the two services' records of that bucket.
LEMMA BucketKeyIs ==
  ASSUME NEW k \in BucketKeys, NEW l \in BucketKeys, k[2] = l[2]
  PROVE  SubjectOf(k) = SubjectOf(l) /\ l \in {S3Key(k[2]), GcsKey(k[2])}
<1>1. \A j \in BucketKeys : \E b \in Bucket : j = <<"bucket", b, "s3">> \/ j = <<"bucket", b, "gcs">>
  BY DEF BucketKeys, S3Key, GcsKey
<1>2. PICK b \in Bucket : k = <<"bucket", b, "s3">> \/ k = <<"bucket", b, "gcs">>
  BY <1>1
<1>3. PICK c \in Bucket : l = <<"bucket", c, "s3">> \/ l = <<"bucket", c, "gcs">>
  BY <1>1
<1>4. b = c /\ k[2] = b
  BY <1>2, <1>3
<1> QED BY <1>2, <1>3, <1>4 DEF SubjectOf, S3Key, GcsKey

\* What stays known when nothing is taken from MinIO and whoever forgets goes on.
LEMMA MinioStays ==
  ASSUME minio \subseteq minio', raced \subseteq raced', \A l \in left : l \in left' \/ l[2] \in minio',
         \A g \in Handler : At(g, "forgetBucket") => req'[g].op = req[g].op /\ req'[g].key = req[g].key,
         NEW k, Known(k)
  PROVE  Known(k)'
<1>1. ASSUME NEW g \in Handler, At(g, "forgetBucket"), Key(g) = k PROVE Forgotten(k)'
  <2>1. req'[g].op = "forgetBucket" /\ req'[g].key = k
    BY <1>1 DEF At, Key
  <2> QED BY <2>1 DEF Forgotten, At, Key
<1> QED BY <1>1 DEF Forgotten, Known

\* A request of these services is about a bucket.
LEMMA BusyBucket ==
  ASSUME Core, workload = "buckets", NEW g \in Handler, ~At(g, "idle")
  PROVE  Key(g) \in BucketKeys /\ req[g].subject = SubjectOf(Key(g)) /\ req[g].subject \in Subject
  BY Working DEF InWorkload

\* A bucket is taken: its records are left, but for one that is being forgotten, and
\* whoever works on it has been overlapped.
LEMMA MinioTaken ==
  ASSUME Core, Minio, workload = "buckets", NEW k \in BucketKeys, Takes(k), UNCHANGED <<store, objects>>,
         raced \subseteq raced', Busy(SubjectOf(k)) # {} => SubjectOf(k) \in raced', NEW rest,
         \A g \in Handler : req[g].op # "idle" => req'[g].op = req[g].op /\ req'[g].key = req[g].key,
         \A g \in Handler : req[g].op = "idle" => req'[g].op \notin Keeping,
         BucketRecords(k[2]) \ rest \subseteq left', \A l \in rest : Known(l)'
  PROVE  Minio'
<1>1. ASSUME NEW l \in DOMAIN store
      PROVE  Known(l)'
  <2>1. Known(l)
    BY DEF Minio
  <2>2. CASE l[2] = k[2]
    <3>1. l \in BucketKeys
      BY DEF Core, Shape, StoreOK, InWorkload
    <3>2. l \in BucketRecords(k[2])
      BY <2>2, <3>1, BucketKeyIs DEF BucketRecords
    <3> QED BY <3>2 DEF Known
  <2>3. CASE l[2] # k[2] /\ Forgotten(l)
    <3>1. PICK g \in Handler : At(g, "forgetBucket") /\ Key(g) = l
      BY <2>3 DEF Forgotten
    <3>2. req'[g].op = "forgetBucket" /\ req'[g].key = l
      BY <3>1 DEF At, Key
    <3> QED BY <3>2 DEF Known, Forgotten, At, Key
  <2> QED BY <2>1, <2>2, <2>3 DEF Known, Takes
<1>2. ASSUME NEW g \in Handler, req'[g].op \in Keeping
      PROVE  req'[g].key[2] \in minio' \/ SubjectOf(req'[g].key) \in raced'
  <2>1. ~At(g, "idle") /\ req[g].op \in Keeping /\ req'[g].key = Key(g)
    BY <1>2 DEF At, Key
  <2>2. Key(g)[2] \in minio \/ SubjectOf(Key(g)) \in raced
    BY <2>1 DEF Minio
  <2>3. CASE Key(g)[2] = k[2]
    <3>1. Key(g) \in BucketKeys /\ req[g].subject = SubjectOf(Key(g))
      BY <2>1, BusyBucket
    <3>2. SubjectOf(Key(g)) = SubjectOf(k)
      BY <2>3, <3>1, BucketKeyIs
    <3>3. g \in Busy(SubjectOf(k))
      BY <3>1, <3>2 DEF Busy
    <3> QED BY <2>1, <3>2, <3>3
  <2> QED BY <2>1, <2>2, <2>3 DEF Takes
<1>3. objects' \subseteq minio' \X Object
  BY DEF Minio, Takes
<1> QED BY <1>1, <1>2, <1>3 DEF Minio, Key

\* A request begins, after what it asked of MinIO.
LEMMA MinioBegun ==
  ASSUME Core, Minio, workload = "buckets", NEW h \in Handler, NEW k \in BucketKeys, NEW op, NEW ref,
         Begun(h, op, k, ref), UNCHANGED objects,
         \/ op = "adminDelete" /\ UNCHANGED <<minio, left>>
         \/ op \in Keeping /\ Backs(k)
         \/ op = "forgetBucket" /\ ref = SubjectOf(k) /\ Takes(k) /\ BucketRecords(k[2]) \ {k} \subseteq left'
  PROVE  Minio'
<1>1. store' = store /\ raced \subseteq raced' /\ req[h] = Idle /\ req'[h].op = op /\ req'[h].key = k
  BY DEF Begun
<1>2. \A g \in Handler : g # h => req'[g].op = req[g].op /\ req'[g].key = req[g].key
  BY DEF Begun, MarkedFor, MarkedAs, Same
<1>3. req[h].op = "idle"
  BY <1>1, Blanks
<1>4. CASE /\ minio \subseteq minio' /\ (op \in Keeping => k[2] \in minio')
           /\ \A l \in left : l \in left' \/ l[2] \in minio'
  <2>1. \A l \in DOMAIN store' : Known(l)'
    BY <1>1, <1>2, <1>3, <1>4, MinioStays DEF Minio, At
  <2>2. \A g \in Handler : req'[g].op \in Keeping => req'[g].key[2] \in minio' \/ SubjectOf(req'[g].key) \in raced'
    BY <1>1, <1>2, <1>4 DEF Minio, Key
  <2>3. objects' \subseteq minio' \X Object
    BY <1>4 DEF Minio
  <2> QED BY <2>1, <2>2, <2>3 DEF Minio, Key
<1>5. CASE op = "forgetBucket" /\ ref = SubjectOf(k) /\ Takes(k) /\ BucketRecords(k[2]) \ {k} \subseteq left'
  <2>1. PICK rest : rest = {k}
    OBVIOUS
  <2>2. Known(k)'
    BY <1>1, <1>5 DEF Known, Forgotten, At, Key
  <2>3. Busy(SubjectOf(k)) # {} => SubjectOf(k) \in raced'
    <3>1. SubjectOf(k) \in Subject
      BY InKeys DEF InWorkload
    <3> QED BY <1>5, <3>1 DEF Begun
  <2>4. /\ \A g \in Handler : req[g].op # "idle" => req'[g].op = req[g].op /\ req'[g].key = req[g].key
        /\ \A g \in Handler : req[g].op = "idle" => req'[g].op \notin Keeping
    BY <1>1, <1>2, <1>3, <1>5 DEF Keeping
  <2> QED BY <1>1, <1>5, <2>1, <2>2, <2>3, <2>4, MinioTaken
<1> QED BY <1>4, <1>5 DEF Keeping, Backs

\* h is answered; whether its bucket is there is known.
LEMMA MinioAnswered ==
  ASSUME Core, Minio, workload = "buckets", NEW h \in Handler, Cleared(h), UNCHANGED <<raced, bucketVars>>,
         NEW k, k = Key(h), \A l \in DOMAIN store' : l = k \/ l \in DOMAIN store,
         k \in DOMAIN store' => ~At(h, "forgetBucket") /\ Known(k)
  PROVE  Minio'
<1>1. req'[h] = Idle /\ \A g \in Handler : g # h => req'[g] = req[g]
  BY ClearedIs
<1>2. UNCHANGED <<minio, objects, left>>
  BY DEF bucketVars
<1>3. ASSUME NEW l \in DOMAIN store'
      PROVE  Known(l)'
  <2>1. Known(l)
    BY DEF Minio
  <2>2. ASSUME NEW g \in Handler, At(g, "forgetBucket"), Key(g) = l
        PROVE  Forgotten(l)'
    <3>1. g # h
      BY <2>2
    <3>2. req'[g].op = "forgetBucket" /\ req'[g].key = l
      BY <1>1, <2>2, <3>1 DEF At, Key
    <3> QED BY <3>2 DEF Forgotten, At, Key
  <2> QED BY <1>2, <2>1, <2>2 DEF Forgotten, Known
<1>4. \A g \in Handler : req'[g].op \in Keeping => req'[g].key[2] \in minio \/ SubjectOf(req'[g].key) \in raced'
  BY <1>1, Blanks DEF Minio, Key, Keeping
<1> QED BY <1>2, <1>3, <1>4 DEF Minio, Key

\* Records stand for buckets of MinIO, and objects lie in them, after every step.
LEMMA MinioKeeps ==
  ASSUME Core, Minio, workload = "buckets", NEW h \in Handler, BucketMove(h)
  PROVE  Minio'
<1>1. CASE Shown /\ UNCHANGED <<minio, left>> /\ objects' \subseteq objects \cup (minio \X Object)
  BY <1>1 DEF Shown, Minio, Known, Forgotten, At, Key
<1>2. ASSUME NEW k \in BucketKeys, NEW op, NEW ref, Begun(h, op, k, ref), UNCHANGED objects,
             \/ op = "adminDelete" /\ UNCHANGED <<minio, left>>
             \/ op \in Keeping /\ Backs(k)
             \/ op = "forgetBucket" /\ ref = SubjectOf(k) /\ Takes(k) /\ BucketRecords(k[2]) \ {k} \subseteq left'
      PROVE  Minio'
  BY <1>2, MinioBegun
<1>3. ASSUME NEW k \in BucketKeys, Silently(k) PROVE Minio'
  <2>1. UNCHANGED <<store, objects>> /\ raced \subseteq raced'
        /\ \A g \in Handler : req'[g].op = req[g].op /\ req'[g].key = req[g].key
    BY <1>3 DEF Silently
  <2>2. CASE Backs(k)
    <3>1. \A l \in DOMAIN store' : Known(l)'
      BY <2>1, <2>2, MinioStays DEF Minio, Backs
    <3>2. \A g \in Handler : req'[g].op \in Keeping => req'[g].key[2] \in minio' \/ SubjectOf(req'[g].key) \in raced'
      BY <2>1, <2>2 DEF Minio, Key, Backs
    <3>3. objects' \subseteq minio' \X Object
      BY <2>1, <2>2 DEF Minio, Backs
    <3> QED BY <3>1, <3>2, <3>3 DEF Minio, Key
  <2>3. CASE /\ Takes(k) /\ BucketRecords(k[2]) \subseteq left'
             /\ Busy(SubjectOf(k)) # {} => SubjectOf(k) \in raced'
    <3>1. PICK rest : rest = {}
      OBVIOUS
    <3>2. \A g \in Handler : req[g].op = "idle" => req'[g].op \notin Keeping
      BY <2>1 DEF Keeping
    <3> QED BY <2>1, <2>3, <3>1, <3>2, MinioTaken
  <2> QED BY <1>3, <2>2, <2>3 DEF Silently
<1>4. PICK k : k = Key(h)
  OBVIOUS
<1>5. CASE At(h, "readBucket") /\ Turned(h, "configure") /\ UNCHANGED bucketVars
  <2>1. /\ \A g \in Handler : g # h => req'[g].op = req[g].op /\ req'[g].key = req[g].key
        /\ req'[h].op = "configure" /\ req'[h].key = k /\ UNCHANGED <<store, raced>> /\ ~At(h, "forgetBucket")
        /\ UNCHANGED <<minio, objects, left>>
    BY <1>4, <1>5 DEF Turned, Key, At, bucketVars
  <2>2. \A l \in DOMAIN store' : Known(l)'
    BY <2>1, MinioStays DEF Minio
  <2>3. k[2] \in minio \/ SubjectOf(k) \in raced
    BY <1>4, <1>5 DEF Minio, At, Keeping
  <2>4. \A g \in Handler : req'[g].op \in Keeping => req'[g].key[2] \in minio' \/ SubjectOf(req'[g].key) \in raced'
    BY <2>1, <2>3 DEF Minio, Key
  <2> QED BY <2>1, <2>2, <2>4 DEF Minio, Key
<1>6. CASE At(h, "readBucket") /\ Cleared(h) /\ UNCHANGED <<store, raced, bucketVars>>
  BY <1>4, <1>6, MinioAnswered DEF Minio, At
<1>7. CASE req[h].op \in Keeping /\ Cleared(h) /\ Written(h, k) /\ UNCHANGED <<raced, bucketVars>>
  <2>1. \A l \in DOMAIN store' : l = k \/ l \in DOMAIN store
    BY <1>7 DEF Written, Touches
  <2>2. ~At(h, "forgetBucket") /\ Known(k)
    BY <1>4, <1>7 DEF Minio, At, Keeping, Known
  <2> QED BY <1>4, <1>7, <2>1, <2>2, MinioAnswered
<1>8. CASE Cleared(h) /\ Removed(h, k) /\ UNCHANGED <<raced, bucketVars>>
  <2>1. DOMAIN store' \subseteq DOMAIN store /\ k \notin DOMAIN store'
    BY <1>8 DEF Removed
  <2> QED BY <1>4, <1>8, <2>1, MinioAnswered
<1> QED BY <1>1, <1>2, <1>3, <1>4, <1>5, <1>6, <1>7, <1>8 DEF BucketMove
-----------------------------------------------------------------------------
(* Subjects whose deletion was raced are subjects.                          *)
Racing == raced' \subseteq raced \cup Subject

\* The subjects a step adds to raced are subjects: of one that begins,
LEMMA BeginRacing ==
  ASSUME NEW h, NEW op, NEW s \in Subject, NEW fields, Begin(h, op, s, fields)
  PROVE  Racing
<1>1. PICK ref : raced' = raced \cup {t \in {ref} \cap Subject : Busy(t) # {}}
                                \cup {t \in {s} : \E g \in Handler : req[g].ref = s}
  BY DEF Begin, Enter
<1> QED BY <1>1 DEF Racing

\* of reads and answers,
LEMMA StillRacing ==
  /\ \A subjects : Shows(subjects) => Racing
  /\ \A h, promise : Answer(h, promise) => Racing
  /\ \A s, promise : s \in Subject /\ AtOnce(s, promise) => Racing
  BY DEF Shows, Answer, AtOnce, Racing

\* since clients talk about whatever there is a key for.
LEMMA InSubject ==
  ASSUME NEW k \in Keys
  PROVE  SubjectOf(k) \in Subject
  BY RecordsAssumption

\* The same, service by service.
LEMMA NamedRacing ==
  ASSUME NEW h, NEW op
  PROVE  /\ \A k \in Keys : CreateNamed(h, op, k) \/ RemoveNamed(h, op, k) => Racing
         /\ InsertNamed(h, op) \/ DropNamed(h, op) => Racing
  BY InSubject, BeginRacing, StillRacing DEF CreateNamed, RemoveNamed, InsertNamed, DropNamed

LEMMA NameRacing ==
  ASSUME NEW h, NameStep(h)
  PROVE  Racing
<1>1. \A n \in UserName : UserKey(n) \in Keys
  BY DEF Keys, NameKeys
<1>2. \A n \in PolicyName : PolicyKey(n) \in Keys
  BY DEF Keys, NameKeys
<1>3. CASE createUser(h)
  BY <1>1, <1>3, NamedRacing DEF createUser
<1>4. CASE deleteUser(h)
  BY <1>1, <1>4, NamedRacing DEF deleteUser
<1>5. CASE createPolicy(h)
  BY <1>2, <1>5, NamedRacing DEF createPolicy
<1>6. CASE deletePolicy(h)
  BY <1>2, <1>6, NamedRacing DEF deletePolicy
<1> QED BY <1>3, <1>4, <1>5, <1>6 DEF NameStep

LEMMA StoredSubject ==
  ASSUME Core, NEW k \in DOMAIN store
  PROVE  SubjectOf(k) \in Subject
  BY InKeys DEF Core, Shape, StoreOK

LEMMA RuleRacing ==
  ASSUME Core, NEW h, RuleStep(h)
  PROVE  Racing
<1>1. ASSUME NEW op, NEW field, ReadRules(h, op, field) PROVE Racing
  <2>1. PICK k, fields : k \in Groups /\ Begin(h, op, SubjectOf(k), fields)
    BY <1>1 DEF ReadRules
  <2>2. SubjectOf(k) \in Subject
    BY <2>1, StoredSubject DEF Groups
  <2> QED BY <2>1, <2>2, BeginRacing
<1>2. ASSUME NEW field, modifySecurityGroupRules(h, field) PROVE Racing
  BY <1>1, <1>2, StillRacing DEF modifySecurityGroupRules
<1>3. ASSUME NEW field, removeSecurityGroupRules(h, field) PROVE Racing
  BY <1>1, <1>3, StillRacing DEF removeSecurityGroupRules
<1> QED BY <1>2, <1>3 DEF RuleStep, authorizeSecurityGroupIngress, authorizeSecurityGroupEgress,
                          revokeSecurityGroupIngress, revokeSecurityGroupEgress

LEMMA SqsRacing ==
  ASSUME NEW h, SqsStep(h)
  PROVE  Racing
<1>1. \A n \in QueueName : SubjectOf(QueueKey(n)) \in Subject
  BY InSubject DEF Keys, QueueKeys
<1>2. CASE createQueue(h)
  BY <1>1, <1>2, BeginRacing, StillRacing DEF createQueue
<1>3. CASE deleteQueue
  BY <1>1, <1>3, StillRacing DEF deleteQueue
<1>4. CASE tagQueue(h)
  BY <1>1, <1>4, BeginRacing, StillRacing DEF tagQueue
<1> QED BY <1>2, <1>3, <1>4 DEF SqsStep

LEMMA PairRacing ==
  ASSUME Core, NEW h, KeyPairStep(h)
  PROVE  Racing
<1>1. ASSUME NEW n \in KeyName, NEW i \in KeyPairId PROVE PairSubject(n) \in Subject
  <2>1. PairKey(n, i) \in Keys /\ SubjectOf(PairKey(n, i)) = PairSubject(n)
    BY DEF Keys, PairKeys, PairKey, PairSubject, SubjectOf
  <2> QED BY <2>1, InSubject
<1>2. ASSUME NEW op, NewPair(h, op) PROVE Racing
  BY <1>1, <1>2, BeginRacing, StillRacing DEF NewPair
<1>3. CASE deleteKeyPair(h)
  <2>1. ASSUME NEW n \in KeyName, NEW k \in Listed(PairSubject(n)), Begin(h, "deletePair", PairSubject(n), [key |-> k])
        PROVE  Racing
    <3>1. PairSubject(n) = SubjectOf(k) /\ k \in DOMAIN store
      BY DEF Listed
    <3> QED BY <2>1, <3>1, StoredSubject, BeginRacing
  <2> QED BY <1>3, <2>1, StillRacing DEF deleteKeyPair
<1> QED BY <1>2, <1>3 DEF KeyPairStep, createKeyPair, importKeyPair

LEMMA TagsRacing ==
  ASSUME NEW h, TagsStep(h)
  PROVE  Racing
<1>1. \A i \in TaggedInstance : SubjectOf(InstanceKey(i)) \in Subject
  BY InSubject DEF Keys, TaggedKeys
<1>2. ASSUME NEW op, NEW tags, ReadInstance(h, op, tags) PROVE Racing
  BY <1>1, <1>2, BeginRacing, StillRacing DEF ReadInstance
<1>3. CASE createTags(h)
  BY <1>2, <1>3, StillRacing DEF createTags, Answered
<1>4. CASE deleteTags(h)
  BY <1>2, <1>4, StillRacing DEF deleteTags, Answered
<1>5. CASE terminateInstances(h)
  BY <1>2, <1>5, StillRacing DEF terminateInstances
<1> QED BY <1>3, <1>4, <1>5 DEF TagsStep

LEMMA EffectRacing ==
  ASSUME Core, NEW h \in Handler, Effect(h)
  PROVE  Racing
<1>1. CASE Shown \/ UNCHANGED raced
  BY <1>1 DEF Racing, Shown
<1>2. ASSUME NEW op, NEW k, NEW ref, Begun(h, op, k, ref), InWorkload(k) PROVE Racing
  BY <1>2, InKeys DEF Begun, Racing
<1> QED BY <1>1, <1>2 DEF Effect, Starts, Turned

LEMMA BucketRacing ==
  ASSUME Core, workload = "buckets", NEW h \in Handler, BucketStep(h)
  PROVE  Racing
<1>1. \A b \in Bucket : SubjectOf(S3Key(b)) \in Subject /\ SubjectOf(GcsKey(b)) \in Subject
  BY InSubject DEF Keys, BucketKeys
<1>2. ASSUME NEW op, NEW b \in Bucket, NEW k \in {S3Key(b), GcsKey(b)}, NEW fields, BeginBucket(h, op, k, fields)
      PROVE  Racing
  BY <1>1, <1>2, BeginRacing DEF BeginBucket
<1>3. ASSUME NEW b \in Bucket, NEW k \in {S3Key(b), GcsKey(b)}, MinIOCreates(h, k) \/ MinIODeletes(h, k) PROVE Racing
  <2>1. Unheard(SubjectOf(k)) => Racing
    BY <1>1 DEF Unheard, Racing
  <2> QED BY <1>2, <1>3, <2>1 DEF MinIOCreates, MinIODeletes
<1>4. ASSUME NEW b \in Bucket, NEW op, NEW c, MinIOConfigures(h, op, b, c) PROVE Racing
  BY <1>2, <1>4 DEF MinIOConfigures
<1>5. CASE createBucketResource(h) \/ deleteBucketResource(h) \/ updateBucketConfig(h) \/ mistakenForBucket(h)
  BY <1>5, StillRacing DEF createBucketResource, deleteBucketResource, updateBucketConfig, mistakenForBucket, Racing
<1>6. CASE handleObjectUpload \/ handleObjectCopy \/ handleObjectDelete
  BY <1>6 DEF handleObjectUpload, handleObjectCopy, handleObjectDelete, recVars, Racing
<1> QED BY <1>3, <1>4, <1>5, <1>6 DEF BucketStep, S3Step, handleCreateBucket, handleDeleteBucket
-----------------------------------------------------------------------------
(* Types.                                                                   *)
Bounds == /\ raced \subseteq Subject /\ networks \subseteq VpcId /\ minio \subseteq Bucket
          /\ left \subseteq BucketKeys /\ \A k \in taken : SubjectOf(k) \in Subject

\* Networks belong to VPCs, MinIO's buckets are buckets, what is left of one is a record
\* of it, and the admin API takes what is in the store.
LEMMA VpcBounds ==
  ASSUME NEW h, VpcStep(h), networks \subseteq VpcId
  PROVE  networks' \subseteq VpcId
  BY DEF VpcStep, createVpc, deleteVpc, FindVpc, LookForSubnets, RemoveNetwork, DropVpc, createSubnet, deleteSubnet

LEMMA BucketBounds ==
  ASSUME NEW h, BucketStep(h), minio \subseteq Bucket, left \subseteq BucketKeys
  PROVE  minio' \subseteq Bucket /\ left' \subseteq BucketKeys
<1>1. ASSUME NEW b \in Bucket, NEW k \in {S3Key(b), GcsKey(b)}, MinIOCreates(h, k) \/ MinIODeletes(h, k)
      PROVE  minio' \subseteq Bucket /\ left' \subseteq BucketKeys
  <2>1. k[2] = b
    BY DEF S3Key, GcsKey
  <2>2. BucketRecords(b) \subseteq BucketKeys
    BY DEF BucketRecords, BucketKeys
  <2> QED BY <1>1, <2>1, <2>2 DEF MinIOCreates, MinIODeletes
<1> QED BY <1>1 DEF BucketStep, S3Step, handleCreateBucket, handleDeleteBucket, MinIOConfigures, bucketVars,
           createBucketResource, deleteBucketResource, updateBucketConfig, mistakenForBucket,
           handleObjectUpload, handleObjectCopy, handleObjectDelete

LEMMA TakenBounds ==
  ASSUME Core, NEW h, ServiceStep(h), \A k \in taken : SubjectOf(k) \in Subject
  PROVE  \A k \in taken' : SubjectOf(k) \in Subject
<1>1. taken' \subseteq taken \cup DOMAIN store
  BY DEF ServiceStep, Admin, DeleteResourceHandler, StillTaken
<1> QED BY <1>1, StoredSubject

\* ... so after every step.
LEMMA BoundsNext ==
  ASSUME Core, Bounds, [Next]_vars
  PROVE  Bounds'
<1>1. CASE UNCHANGED vars
  BY <1>1 DEF vars, recVars, bucketVars, Bounds
<1>2. CASE Reads
  <2>1. Racing
    BY <1>2, ReadsShow, StillRacing
  <2> QED BY <1>2, <2>1 DEF Reads, Racing, Bounds, bucketVars
<1>3. ASSUME NEW h \in Handler, ServiceStep(h), workload' = workload PROVE Bounds'
  <2>1. Calmly
    BY <1>3 DEF Calmly
  <2>2. workload \in {"roles", "vpc", "members"} => Racing
    BY <1>3, <2>1, StepDone, EffectRacing
  <2>3. DeleteResourceHandler(h) => Racing
    BY <2>1, AdminDone, EffectRacing DEF Done
  <2>4. workload = "groups" /\ GroupStep(h) => Racing
    BY <2>1, GroupKeeps, EffectRacing DEF Done
  <2>5. Racing
    BY <1>3, <2>2, <2>3, <2>4, NameRacing, RuleRacing, SqsRacing, PairRacing, TagsRacing, BucketRacing
       DEF ServiceStep, Service, Admin
  <2>6. networks' \subseteq VpcId
    BY <1>3, VpcBounds DEF ServiceStep, Service, Admin, Bounds
  <2>7. minio' \subseteq Bucket /\ left' \subseteq BucketKeys
    BY <1>3, BucketBounds DEF ServiceStep, Service, Admin, Bounds, bucketVars
  <2>8. \A k \in taken' : SubjectOf(k) \in Subject
    BY <1>3, TakenBounds DEF Bounds
  <2> QED BY <2>5, <2>6, <2>7, <2>8 DEF Racing, Bounds
<1> QED BY <1>1, <1>2, <1>3 DEF Next

\* Every record has one of the three statuses and a map that exists, every request a copy
\* with such a map and a subject that clients talk about; what is raced, the networks and
\* MinIO's buckets are subjects, VPCs and buckets, and so are what the admin API has taken
\* and what is left of a bucket.
THEOREM TypesCorrect == Spec => []TypeOK
<1>1. Init => Bounds
  BY DEF Init, RecInit, TagsInit, VpcInit, BucketsInit, Bounds
<1>2. Core /\ Bounds /\ [Next]_vars => Bounds'
  BY BoundsNext
<1>3. ASSUME Core, Bounds PROVE TypeOK
  <2>1. ASSUME NEW k \in DOMAIN store PROVE store[k] \in Records /\ SubjectOf(k) \in Subject
    BY <1>3, StoredSubject DEF Core, Shape, StoreOK, RecordOK
  <2>2. ASSUME NEW h \in Handler
        PROVE  req[h].copy.map \in Map \cup {NilMap} /\ req[h].subject \in Subject \cup {Nobody}
    <3>1. TaskOK(h)
      BY <1>3 DEF Core, Shape
    <3>2. req[h].copy = Blank \/ req[h].copy \in Records
      BY <3>1 DEF TaskOK, RecordOK
    <3>3. req[h] = Idle \/ ~At(h, "idle")
      BY <3>1 DEF TaskOK
    <3> QED BY <1>3, <3>2, <3>3, Working, Blanks DEF Records
  <2> QED BY <1>3, <2>1, <2>2 DEF TypeOK, Bounds, Core, Shape
<1> QED BY <1>1, <1>2, <1>3, CoreCorrect, PTL DEF Spec
-----------------------------------------------------------------------------
(* What refers to something, refers to something that is there.             *)
RefInv == /\ workload \in {"roles", "vpc", "members"} => Refs
          /\ workload = "vpc" => Net
          /\ IF workload = "buckets" THEN Minio ELSE objects = {}

\* At the start nothing refers to anything,
LEMMA RefInit ==
  ASSUME Init
  PROVE  RefInv
<1>1. req = [h \in Handler |-> Idle] /\ objects = {} /\ (workload # "tags" => DOMAIN store = {})
  BY DEF Init, TagsInit, RecInit, BucketsInit
<1>2. \A h \in Handler : req[h] = Idle
  BY <1>1
<1>3. workload # "tags" => Refs
  BY <1>1, <1>2, Blanks DEF Refs, Met, RefTask, At, Referring, Detaching, Dropping
<1>4. workload # "tags" => Net
  <2>1. \A h \in Handler : Key(h) \notin VpcKeys /\ At(h, "idle")
    BY <1>2, IdleKey
  <2> QED BY <1>1, <2>1 DEF Net, Present, At
<1>5. workload # "tags" => Minio
  BY <1>1, <1>2, Blanks DEF Minio, Keeping
<1> QED BY <1>1, <1>3, <1>4, <1>5 DEF RefInv

\* a read changes no reference,
LEMMA RefShown ==
  ASSUME RefInv, Shown, UNCHANGED <<networks, bucketVars, taken, drawn, workload>>
  PROVE  RefInv'
<1>1. Refs => Refs'
  BY DEF Shown, Refs, Met, RefTask, Key, At, Backed, Present, Raced
<1>2. Net => Net'
  BY DEF Shown, Net, Present, Key, At
<1>3. objects' = objects /\ (Minio => Minio')
  BY DEF Shown, Minio, Known, Forgotten, At, Key, bucketVars
<1> QED BY <1>1, <1>2, <1>3 DEF RefInv

\* a step of a handler leaves each of the services' references good,
LEMMA RefStep ==
  ASSUME Calmly, RefInv, NEW h \in Handler, ServiceStep(h)
  PROVE  RefInv'
<1>1. workload \in {"roles", "vpc", "members"} => Refs'
  BY StepDone, RefsKeep DEF RefInv, Calmly
<1>2. ASSUME workload = "vpc" PROVE Net'
  <2>1. VpcStep(h) \/ (DeleteResourceHandler(h) /\ UNCHANGED <<networks, drawn>>)
    BY <1>2 DEF ServiceStep, Service, Admin
  <2>2. NetMove(h)
    BY <1>2, <2>1, VpcMoves, AdminMoves
  <2> QED BY <1>2, <2>2, NetKeeps DEF RefInv, Calmly
<1>3. ASSUME workload = "buckets" PROVE Minio'
  <2>1. BucketStep(h) \/ (DeleteResourceHandler(h) /\ UNCHANGED bucketVars)
    BY <1>3 DEF ServiceStep, Service, Admin
  <2>2. BucketMove(h)
    BY <1>3, <2>1, BucketMoves, AdminForgets
  <2> QED BY <1>3, <2>2, MinioKeeps DEF RefInv, Calmly
<1>4. workload # "buckets" => objects' = objects
  BY DEF ServiceStep, Service, Admin, bucketVars
<1> QED BY <1>1, <1>2, <1>3, <1>4 DEF RefInv, Calmly

\* ... so every step does.
LEMMA RefNext ==
  ASSUME Core, RefInv, [Next]_vars
  PROVE  RefInv'
<1>1. CASE UNCHANGED vars
  BY <1>1, RefShown DEF vars, recVars, Shown
<1>2. CASE Reads /\ UNCHANGED workload
  <2>1. Shown
    BY <1>2, ReadsShow DEF Shown, Shows
  <2> QED BY <1>2, <2>1, RefShown DEF Reads
<1>3. CASE (\E h \in Handler : ServiceStep(h)) /\ UNCHANGED workload
  BY <1>3, RefStep DEF Calmly
<1> QED BY <1>1, <1>2, <1>3 DEF Next

\* That is what the four services promise.
LEMMA RefsHold ==
  ASSUME Core, RefInv
  PROVE  ReferencesHold
<1>1. \A k \in DOMAIN store : InWorkload(k)
  BY DEF Core, Shape, StoreOK
<1>2. AttachmentsHaveRoles
  <2> SUFFICES ASSUME NEW k \in DOMAIN store, k[1] = "attachment"
               PROVE  \/ Present(RoleKey(RoleOf(k))) \/ RoleKey(RoleOf(k)) \in taken
                      \/ SubjectOf(RoleKey(RoleOf(k))) \in raced
    BY DEF AttachmentsHaveRoles
  <2>1. workload = "roles" /\ k \in AttachKeys
    BY <1>1, Kinds DEF InWorkload
  <2>2. Backed(k) /\ Parent(k) = RoleKey(RoleOf(k))
    BY <2>1, Families DEF RefInv, Refs
  <2> QED BY <2>2 DEF Backed, Raced
<1>3. SubnetsHaveVpcs
  <2>1. ASSUME NEW k \in DOMAIN store, k[1] = "subnet"
        PROVE  \/ Present(VpcKey(VpcOf(k))) \/ VpcKey(VpcOf(k)) \in taken
               \/ SubjectOf(VpcKey(VpcOf(k))) \in raced
    <3>1. workload = "vpc" /\ k \in SubnetKeys
      BY <1>1, <2>1, Kinds DEF InWorkload
    <3>2. Backed(k) /\ Parent(k) = VpcKey(VpcOf(k))
      BY <3>1, Families DEF RefInv, Refs
    <3> QED BY <3>2 DEF Backed, Raced
  <2>2. ASSUME NEW i \in VpcId, Present(VpcKey(i))
        PROVE  i \in networks \/ \E h \in Handler : Key(h) = VpcKey(i) /\ At(h, "dropVpc")
    <3>1. PICK k \in DOMAIN store : k = VpcKey(i)
      BY <2>2 DEF Present
    <3>2. workload = "vpc"
      BY <1>1, <3>1, VpcKeyIs, Kinds DEF InWorkload
    <3> QED BY <2>2, <3>2 DEF RefInv, Net
  <2> QED BY <2>1, <2>2 DEF SubnetsHaveVpcs
<1>4. MembersHaveGroups
  <2> SUFFICES ASSUME NEW k \in DOMAIN store, k[1] = "instance", k[3] = "id"
               PROVE  Present(k[2][1]) \/ k[2][1] \in taken \/ SubjectOf(k[2][1]) \in raced
    BY DEF MembersHaveGroups
  <2>1. k \notin TaggedKeys
    BY RecordsAssumption DEF TaggedKeys, InstanceKey
  <2>2. workload = "members" /\ k \in MemberKeys
    BY <1>1, <2>1, Kinds DEF InWorkload
  <2>3. Backed(k) /\ Parent(k) = k[2][1]
    BY <2>2, Families DEF RefInv, Refs
  <2> QED BY <2>3 DEF Backed, Raced
<1>5. BucketsBacked
  <2>1. ASSUME NEW k \in DOMAIN store, k[1] = "bucket"
        PROVE  k[2] \in minio \/ k \in left \/ BucketSubject(k[2]) \in raced \/ Forgotten(k)
    <3>1. workload = "buckets"
      BY <1>1, <2>1, Kinds DEF InWorkload
    <3>2. SubjectOf(k) = BucketSubject(k[2])
      BY <2>1 DEF SubjectOf, BucketSubject
    <3> QED BY <3>1, <3>2 DEF RefInv, Minio, Known
  <2>2. \A x \in objects : x[1] \in minio
    BY DEF RefInv, Minio
  <2> QED BY <2>1, <2>2 DEF BucketsBacked, Forgotten
<1> QED BY <1>2, <1>3, <1>4, <1>5 DEF ReferencesHold

\* What refers to something, refers to something that is there: an attachment to a role, a
\* subnet to a VPC with its network, an instance to its security group, a bucket's record
\* to a bucket of MinIO.  For as long as the behaviour lasts, a subject is exempt once a
\* deletion of it has overlapped with a request for it or for what refers to it (raced).
\* Until it is made again, so is what the admin API has deleted (taken), and a bucket that
\* was deleted by a request that leaves the record: one of the other service, or one that
\* did not hear MinIO's answer (left).
THEOREM ReferencesCorrect == Spec => []ReferencesHold
<1>1. Core /\ RefInv /\ [Next]_vars => RefInv'
  BY RefNext
<1>2. Core /\ RefInv => ReferencesHold
  BY RefsHold
<1> QED BY RefInit, <1>1, <1>2, CoreCorrect, PTL DEF Spec
=============================================================================
