--------------------------- MODULE DbWriterProofs ---------------------------
(***************************************************************************)
(* Proofs about the database thread and the process around it, for any     *)
(* number of callers and any migrations.                                   *)
(*                                                                         *)
(* The order in which jobs run is the order in which they were queued      *)
(* because of where each caller is: first those whose jobs ran, then those *)
(* whose jobs are in the channel, both in the order of `sent`, and nobody  *)
(* in two places (OrderInv).  What a caller may believe follows from the   *)
(* same order (CallerOK).  The schema is whole when the first job runs     *)
(* because nothing that a script has created is ever lost (SchemaInv).     *)
(***************************************************************************)
EXTENDS Process, SequenceTheorems, TLAPS

-----------------------------------------------------------------------------
(* Sequences *)

LEMMA AppendSet ==
  ASSUME NEW S, NEW s \in Seq(S), NEW e
  PROVE  ToSet(Append(s, e)) = ToSet(s) \cup {e}
<1> DEFINE r == Append(s, e)
<1>1. /\ DOMAIN r = 1 .. Len(s) + 1 /\ DOMAIN s = 1 .. Len(s) /\ Len(s) \in Nat
      /\ r[Len(s) + 1] = e /\ \A i \in 1 .. Len(s) : r[i] = s[i]
  OBVIOUS
<1> HIDE DEF r
<1>2. ASSUME NEW i \in DOMAIN s PROVE s[i] \in ToSet(r)
  BY <1>1 DEF ToSet
<1>3. ASSUME NEW i \in DOMAIN r PROVE r[i] \in ToSet(s) \cup {e}
  BY <1>1 DEF ToSet
<1>4. e \in ToSet(r)
  BY <1>1 DEF ToSet
<1>5. ToSet(r) = ToSet(s) \cup {e}
  BY <1>2, <1>3, <1>4 DEF ToSet
<1> QED BY <1>5 DEF r

LEMMA WithoutFirst ==
  ASSUME NEW S, NEW s \in Seq(S), s # <<>>
  PROVE  /\ RemoveAt(s, 1) \in Seq(S)
         /\ s[1] \in S
         /\ Len(RemoveAt(s, 1)) = Len(s) - 1
         /\ \A i \in 1 .. Len(s) - 1 : RemoveAt(s, 1)[i] = s[i + 1]
         /\ ToSet(s) = ToSet(RemoveAt(s, 1)) \cup {s[1]}
<1>1. /\ RemoveAt(s, 1) \in Seq(S)
      /\ s[1] \in S
      /\ Len(RemoveAt(s, 1)) = Len(s) - 1
      /\ \A i \in 1 .. Len(s) - 1 : RemoveAt(s, 1)[i] = s[i + 1]
  <2>1. PICK n \in Nat \ {0} : n = Len(s)
    OBVIOUS
  <2>2. SubSeq(s, 1, 0) = <<>>
    OBVIOUS
  <2>3. \A i \in 2 .. n : s[i] \in S
    BY <2>1
  <2>4. /\ SubSeq(s, 2, n) \in Seq(S)
        /\ Len(SubSeq(s, 2, n)) = n - 1
        /\ \A i \in 1 .. n - 1 : SubSeq(s, 2, n)[i] = s[i + 1]
    BY <2>3, SubSeqProperties
  <2>5. RemoveAt(s, 1) = SubSeq(s, 2, n)
    BY <2>1, <2>2, <2>4 DEF RemoveAt
  <2>6. s[1] \in S
    BY <2>1
  <2> QED BY <2>1, <2>4, <2>5, <2>6
<1> DEFINE r == RemoveAt(s, 1)
<1>2. r \in Seq(S) /\ Len(r) = Len(s) - 1 /\ \A i \in 1 .. Len(s) - 1 : r[i] = s[i + 1]
  BY <1>1
<1> HIDE DEF r
<1>3. ASSUME NEW i \in DOMAIN s PROVE s[i] \in ToSet(r) \cup {s[1]}
  <2>1. CASE i = 1
    BY <2>1
  <2>2. CASE i # 1
    <3>1. i - 1 \in DOMAIN r /\ r[i - 1] = s[i]
      BY <1>2, <2>2
    <3> QED BY <3>1 DEF ToSet
  <2> QED BY <2>1, <2>2
<1>4. ASSUME NEW i \in DOMAIN r PROVE r[i] \in ToSet(s)
  <2>1. i + 1 \in DOMAIN s /\ r[i] = s[i + 1]
    BY <1>2
  <2> QED BY <2>1 DEF ToSet
<1>5. s[1] \in ToSet(s)
  BY DEF ToSet
<1>6. ToSet(s) = ToSet(r) \cup {s[1]}
  BY <1>3, <1>4, <1>5 DEF ToSet
<1> QED BY <1>1, <1>6 DEF r

-----------------------------------------------------------------------------
(* The inductive invariant *)

\* Every caller is sent once.
SentOnce == \A i, j \in DOMAIN sent : sent[i] = sent[j] => i = j

\* Where in that order a caller is.
Place == [c \in Callers |-> Position(c)]

\* What ran and what is in the channel is what was sent, in that order.
OrderInv ==
  /\ applied \in Seq(Callers) /\ queue \in Seq(Callers) /\ sent \in Seq(Callers)
  /\ SentOnce
  /\ ToSet(applied) \subseteq ToSet(sent) /\ ToSet(queue) \subseteq ToSet(sent)
  /\ \A i, j \in DOMAIN applied : i < j => Place[applied[i]] < Place[applied[j]]
  /\ \A i, j \in DOMAIN queue : i < j => Place[queue[i]] < Place[queue[j]]
  /\ \A i \in DOMAIN applied, j \in DOMAIN queue : Place[applied[i]] < Place[queue[j]]

\* What a caller waits for, and what it was told.
CallerOK(c) ==
  /\ calls[c] = "idle" => c \notin ToSet(sent)
  /\ calls[c] = "waiting" => c \in ToSet(queue)
  /\ c \in ToSet(queue) => calls[c] \in {"waiting", "abandoned"}
  /\ calls[c] = "answered" => c \in ToSet(applied)
  /\ calls[c] = "panicked" => c \notin ToSet(applied)

\* The file holds what the versions up to its own create, and while the thread is at a
\* migration, what that one has created so far.
SchemaInv ==
  /\ version \in 0 .. Len(Scripts)
  /\ ScriptObjects(version) \subseteq objects
  /\ objects \subseteq ScriptObjects(Len(Scripts))
  /\ todo \in Seq(STRING)
  /\ migration \in 0 .. Len(Scripts) + 1
  /\ ToSet(todo) \subseteq ScriptObjects(Len(Scripts))
  /\ writer = "migrating" => /\ migration = version + 1
                             /\ ToSet(Script(migration)) \subseteq objects \cup ToSet(todo)
  /\ writer = "serving" => version = Len(Scripts)

CallsInv ==
  /\ writer \in {"off", "opening", "migrating", "serving", "dead"}
  /\ calls \in [Callers -> {"idle", "waiting", "abandoned"} \cup CallEnd]
  /\ writer \in {"off", "dead"} => queue = <<>>
  /\ \A c \in Callers : CallerOK(c)

WriterInv == OrderInv /\ CallsInv /\ SchemaInv

LEMMA InvImplies ==
  WriterInv => /\ TypeOK /\ JobsRunOnceInOrder /\ RepliesAreTrue
               /\ writer = "serving" => /\ version = Len(Scripts)
                                        /\ objects = ScriptObjects(Len(Scripts))
<1> SUFFICES ASSUME WriterInv
             PROVE  /\ TypeOK /\ JobsRunOnceInOrder /\ RepliesAreTrue
                    /\ writer = "serving" => /\ version = Len(Scripts)
                                             /\ objects = ScriptObjects(Len(Scripts))
  OBVIOUS
<1>1. \A s \in {applied, queue, sent} : ToSet(s) \subseteq Callers
  BY DEF WriterInv, OrderInv, ToSet
<1>2. TypeOK
  BY <1>1 DEF WriterInv, CallsInv, SchemaInv, TypeOK
<1>3. JobsRunOnceInOrder
  <2>1. \A i \in DOMAIN applied : Place[applied[i]] = Position(applied[i])
    BY DEF WriterInv, OrderInv, Place
  <2> QED BY <2>1 DEF WriterInv, OrderInv, JobsRunOnceInOrder
<1>4. RepliesAreTrue
  BY DEF WriterInv, CallsInv, CallerOK, RepliesAreTrue
<1> QED BY <1>2, <1>3, <1>4 DEF WriterInv, SchemaInv

LEMMA InitInv == Init => WriterInv
<1> SUFFICES ASSUME Init PROVE WriterInv
  OBVIOUS
<1>1. OrderInv
  BY DEF Init, OrderInv, SentOnce, ToSet
<1>2. CallsInv
  BY DEF Init, CallsInv, CallerOK, ToSet
<1>3. ScriptObjects(0) = {}
  BY DEF ScriptObjects
<1>4. Len(Scripts) \in Nat
  BY ScriptsAssumption
<1>5. SchemaInv
  BY <1>3, <1>4 DEF Init, SchemaInv, ToSet
<1> QED BY <1>1, <1>2, <1>5 DEF WriterInv

\* Where a sent caller is, and that it stays there.
LEMMA Positions ==
  ASSUME OrderInv
  PROVE  /\ \A i \in DOMAIN sent : Place[sent[i]] = i
         /\ \A c \in ToSet(sent) : Place[c] \in DOMAIN sent /\ sent[Place[c]] = c
BY DEF OrderInv, SentOnce, Place, Position, ToSet

LEMMA Appended ==
  ASSUME OrderInv, NEW c \in Callers, c \notin ToSet(sent), sent' = Append(sent, c)
  PROVE  /\ sent' \in Seq(Callers) /\ SentOnce'
         /\ ToSet(sent') = ToSet(sent) \cup {c}
         /\ \A d \in ToSet(sent) : Place'[d] = Place[d] /\ Place[d] < Place'[c]
<1>1. /\ sent \in Seq(Callers) /\ sent' \in Seq(Callers) /\ Len(sent') = Len(sent) + 1
      /\ sent'[Len(sent) + 1] = c
      /\ \A i \in 1 .. Len(sent) : sent'[i] = sent[i] /\ sent[i] # c
  BY DEF OrderInv, ToSet
<1>2. SentOnce'
  BY <1>1 DEF OrderInv, SentOnce
<1>3. ToSet(sent') = ToSet(sent) \cup {c}
  BY <1>1, AppendSet
<1>4. Place'[c] = Len(sent) + 1
  BY <1>1, <1>2 DEF SentOnce, Place, Position
<1>5. ASSUME NEW d \in ToSet(sent) PROVE Place'[d] = Place[d] /\ Place[d] < Place'[c]
  <2>1. Place[d] \in 1 .. Len(sent) /\ sent[Place[d]] = d
    BY <1>1, Positions
  <2>2. Place'[d] = Place[d]
    BY <1>1, <1>2, <2>1 DEF SentOnce, Place, Position
  <2> QED BY <1>1, <1>4, <2>1, <2>2
<1> QED BY <1>1, <1>2, <1>3, <1>5

LEMMA SamePlaces == sent' = sent => Place' = Place /\ SentOnce' = SentOnce
BY DEF Place, Position, SentOnce

LEMMA UnmovedOrder ==
  ASSUME OrderInv, UNCHANGED <<applied, queue, sent>>
  PROVE  OrderInv'
BY SamePlaces DEF OrderInv

-----------------------------------------------------------------------------
(* The thread *)

\* Steps that move no job and no caller.
LEMMA NoJobMoves ==
  ASSUME WriterInv, SchemaInv', UNCHANGED <<applied, queue, calls, sent>>,
         writer' \in {"opening", "migrating", "serving", "off"},
         writer' = "off" => writer = "off"
  PROVE  WriterInv'
<1>1. OrderInv'
  BY UnmovedOrder DEF WriterInv
<1>2. CallsInv'
  BY DEF WriterInv, CallsInv, CallerOK
<1> QED BY <1>1, <1>2 DEF WriterInv

LEMMA Monotonic ==
  ASSUME NEW m \in Nat, m \in 0 .. Len(Scripts)
  PROVE  ScriptObjects(m) \subseteq ScriptObjects(Len(Scripts))
<1>1. Len(Scripts) \in Nat
  BY ScriptsAssumption
<1> QED BY <1>1 DEF ScriptObjects

LEMMA ScriptFacts ==
  ASSUME NEW m \in Nat
  PROVE  /\ Script(m) \in Seq(STRING)
         /\ ToSet(Script(m)) \subseteq ScriptObjects(Len(Scripts))
         /\ m + 1 <= Len(Scripts) =>
              ScriptObjects(m + 1) = ScriptObjects(m) \cup ToSet(Script(m + 1))
<1>1. DOMAIN Scripts = 1 .. Len(Scripts) /\ Len(Scripts) \in Nat
  BY ScriptsAssumption
<1>2. Script(m) \in Seq(STRING)
  <2>1. m \in DOMAIN Scripts => Scripts[m] \in Seq(STRING)
    BY <1>1, ScriptsAssumption, ElementOfSeq
  <2>2. <<>> \in Seq(STRING)
    BY EmptySeq
  <2> QED BY <2>1, <2>2 DEF Script
<1>3. ToSet(Script(m)) \subseteq ScriptObjects(Len(Scripts))
  BY <1>1 DEF Script, ScriptObjects, ToSet
<1>4. ASSUME m + 1 <= Len(Scripts)
      PROVE  ScriptObjects(m + 1) = ScriptObjects(m) \cup ToSet(Script(m + 1))
  <2>1. Script(m + 1) = Scripts[m + 1]
    BY <1>1, <1>4 DEF Script
  <2>2. 1 .. m + 1 = (1 .. m) \cup {m + 1}
    OBVIOUS
  <2> QED BY <2>1, <2>2 DEF ScriptObjects
<1> QED BY <1>2, <1>3, <1>4

LEMMA StartInv == WriterInv /\ Start => WriterInv'
<1> SUFFICES ASSUME WriterInv, Start PROVE WriterInv'
  OBVIOUS
<1>1. SchemaInv'
  BY DEF Start, disk, migrations, WriterInv, SchemaInv, ScriptObjects, Script
<1> QED BY <1>1, NoJobMoves DEF Start, disk

LEMMA ReadVersionInv == WriterInv /\ ReadVersion => WriterInv'
<1> SUFFICES ASSUME WriterInv, ReadVersion PROVE WriterInv'
  OBVIOUS
<1>1. /\ version \in Nat /\ version + 1 \in 0 .. Len(Scripts) + 1
      /\ migration' = version + 1 /\ todo' = Script(version + 1)
      /\ writer' = "migrating" /\ UNCHANGED <<version, objects>>
  BY ScriptsAssumption DEF ReadVersion, At, disk, WriterInv, SchemaInv
<1>2. /\ Script(version + 1) \in Seq(STRING)
      /\ ToSet(Script(version + 1)) \subseteq ScriptObjects(Len(Scripts))
  BY <1>1, ScriptFacts
<1>3. SchemaInv'
  BY <1>1, <1>2 DEF WriterInv, SchemaInv
<1> QED BY <1>3, NoJobMoves DEF ReadVersion, disk

LEMMA CreateInv == WriterInv /\ Create => WriterInv'
<1> SUFFICES ASSUME WriterInv, Create PROVE WriterInv'
  OBVIOUS
<1>1. /\ todo \in Seq(STRING) /\ todo # <<>> /\ todo' = Tail(todo)
      /\ objects' = objects \cup {Head(todo)}
      /\ UNCHANGED <<version, writer, migration>>
  BY DEF Create, WriterInv, SchemaInv
<1>2. ToSet(todo) = {Head(todo)} \cup ToSet(Tail(todo)) /\ Tail(todo) \in Seq(STRING)
  <2>1. /\ Tail(todo) \in Seq(STRING) /\ Head(todo) = todo[1]
        /\ DOMAIN todo = 1 .. Len(todo) /\ Len(todo) \in Nat \ {0}
        /\ DOMAIN Tail(todo) = 1 .. Len(todo) - 1
        /\ \A i \in 1 .. Len(todo) - 1 : Tail(todo)[i] = todo[i + 1]
    BY <1>1
  <2>2. ASSUME NEW i \in DOMAIN todo PROVE todo[i] \in {Head(todo)} \cup ToSet(Tail(todo))
    <3>1. CASE i = 1
      BY <2>1, <3>1
    <3>2. CASE i # 1
      <4>1. i - 1 \in DOMAIN Tail(todo) /\ Tail(todo)[i - 1] = todo[i]
        BY <2>1, <3>2
      <4> QED BY <4>1 DEF ToSet
    <3> QED BY <3>1, <3>2
  <2>3. ASSUME NEW i \in DOMAIN Tail(todo) PROVE Tail(todo)[i] \in ToSet(todo)
    <3>1. i + 1 \in DOMAIN todo /\ Tail(todo)[i] = todo[i + 1]
      BY <2>1
    <3> QED BY <3>1 DEF ToSet
  <2>4. Head(todo) \in ToSet(todo)
    BY <2>1 DEF ToSet
  <2> QED BY <2>1, <2>2, <2>3, <2>4 DEF ToSet
<1>3. SchemaInv'
  BY <1>1, <1>2 DEF WriterInv, SchemaInv
<1> QED BY <1>3, NoJobMoves DEF Create, WriterInv, CallsInv

LEMMA SetVersionInv == WriterInv /\ SetVersion => WriterInv'
<1> SUFFICES ASSUME WriterInv, SetVersion PROVE WriterInv'
  OBVIOUS
<1>1. /\ Len(Scripts) \in Nat /\ version \in Nat
      /\ migration = version + 1 /\ migration <= Len(Scripts)
      /\ version' = migration /\ migration' = migration + 1 /\ todo' = Script(migration + 1)
      /\ UNCHANGED <<objects, writer>> /\ writer = "migrating"
  BY ScriptsAssumption DEF SetVersion, Recorded, At, WriterInv, SchemaInv
<1>2. ToSet(Script(migration)) \subseteq objects
  BY <1>1 DEF SetVersion, WriterInv, SchemaInv, ToSet
<1>3. ScriptObjects(version') \subseteq objects
  BY <1>1, <1>2, ScriptFacts DEF WriterInv, SchemaInv
<1>4. /\ Script(migration + 1) \in Seq(STRING)
      /\ ToSet(Script(migration + 1)) \subseteq ScriptObjects(Len(Scripts))
  BY <1>1, ScriptFacts
<1>5. SchemaInv'
  BY <1>1, <1>3, <1>4 DEF WriterInv, SchemaInv
<1> QED BY <1>5, NoJobMoves DEF SetVersion, WriterInv, CallsInv

LEMMA OpenForJobsInv == WriterInv /\ OpenForJobs => WriterInv'
<1> SUFFICES ASSUME WriterInv, OpenForJobs PROVE WriterInv'
  OBVIOUS
<1>1. SchemaInv'
  BY ScriptsAssumption
     DEF OpenForJobs, disk, migrations, WriterInv, SchemaInv, ScriptObjects, Script
<1> QED BY <1>1, NoJobMoves DEF OpenForJobs, disk

\* No job is both done and in the channel, and the channel holds none twice.
LEMMA Apart ==
  ASSUME OrderInv
  PROVE  /\ ToSet(applied) \cap ToSet(queue) = {}
         /\ queue # <<>> => queue[1] \notin ToSet(RemoveAt(queue, 1))
<1>1. \A c \in ToSet(sent) : Place[c] \in Nat
  BY Positions DEF OrderInv
<1>2. ASSUME NEW i \in DOMAIN applied, NEW j \in DOMAIN queue, applied[i] = queue[j] PROVE FALSE
  <2>1. Place[applied[i]] \in Nat
    BY <1>1 DEF OrderInv, ToSet
  <2> QED BY <1>2, <2>1 DEF OrderInv
<1>3. ASSUME queue # <<>>, queue[1] \in ToSet(RemoveAt(queue, 1)) PROVE FALSE
  <2>1. PICK n \in Nat \ {0} : n = Len(queue)
    BY <1>3 DEF OrderInv
  <2>2. DOMAIN queue = 1 .. n
    BY <2>1 DEF OrderInv
  <2>3. /\ DOMAIN RemoveAt(queue, 1) = 1 .. n - 1
        /\ \A i \in 1 .. n - 1 : RemoveAt(queue, 1)[i] = queue[i + 1]
    BY <1>3, <2>1, WithoutFirst DEF OrderInv
  <2>4. PICK i \in 1 .. n - 1 : queue[1] = queue[i + 1]
    BY <1>3, <2>3 DEF ToSet
  <2>5. Place[queue[1]] < Place[queue[i + 1]]
    BY <2>2, <2>4 DEF OrderInv
  <2>6. Place[queue[1]] \in Nat
    <3>1. 1 \in DOMAIN queue /\ queue[1] \in ToSet(queue)
      BY <2>1, <2>2 DEF ToSet
    <3> QED BY <1>1, <3>1 DEF OrderInv
  <2> QED BY <2>4, <2>5, <2>6
<1> QED BY <1>2, <1>3 DEF ToSet

\* The channel goes, with every job in it.
LEMMA EmptiedOrder ==
  ASSUME OrderInv, queue' = <<>>, UNCHANGED <<applied, sent>>
  PROVE  OrderInv'
<1>1. ToSet(queue') = {} /\ queue' \in Seq(Callers) /\ DOMAIN queue' = {}
  BY EmptySeq DEF ToSet
<1> QED BY <1>1, SamePlaces DEF OrderInv

LEMMA PanicInv == WriterInv /\ Panic => WriterInv'
<1> SUFFICES ASSUME WriterInv, Panic PROVE WriterInv'
  OBVIOUS
<1>1. /\ queue' = <<>> /\ writer' = "dead"
      /\ UNCHANGED <<version, objects, applied, migration, todo, sent>>
      /\ calls' = [c \in Callers |-> AfterPanic(calls[c])]
  BY DEF Panic, disk, migrations
<1>2. OrderInv'
  BY <1>1, EmptiedOrder DEF WriterInv
<1>3. SchemaInv'
  BY <1>1 DEF WriterInv, SchemaInv, ScriptObjects
<1>4. calls' \in [Callers -> {"idle", "waiting", "abandoned"} \cup CallEnd]
  BY <1>1 DEF WriterInv, CallsInv, AfterPanic, CallEnd
<1>5. ASSUME NEW c \in Callers PROVE CallerOK(c)'
  <2>1. CallerOK(c) /\ calls'[c] = AfterPanic(calls[c]) /\ ToSet(queue') = {}
    BY <1>1 DEF WriterInv, CallsInv, ToSet
  <2>2. c \in ToSet(queue) => c \notin ToSet(applied)
    BY Apart DEF WriterInv
  <2> QED BY <1>1, <2>1, <2>2 DEF CallerOK, AfterPanic
<1>6. CallsInv'
  BY <1>1, <1>4, <1>5 DEF CallsInv
<1> QED BY <1>2, <1>3, <1>6 DEF WriterInv

LEMMA KillInv == WriterInv /\ Kill => WriterInv'
<1> SUFFICES ASSUME WriterInv, Kill PROVE WriterInv'
  OBVIOUS
<1>1. /\ queue' = <<>> /\ writer' = "off" /\ migration' = 0 /\ todo' = <<>>
      /\ UNCHANGED <<version, objects, applied, sent>>
      /\ calls' = [c \in Callers |-> IF calls[c] \in {"waiting", "abandoned"}
                                     THEN "killed" ELSE calls[c]]
  BY DEF Kill, disk
<1>2. OrderInv'
  BY <1>1, EmptiedOrder DEF WriterInv
<1>3. SchemaInv'
  <2>1. todo' \in Seq(STRING) /\ ToSet(todo') = {} /\ Len(Scripts) \in Nat
    BY <1>1, EmptySeq, ScriptsAssumption DEF ToSet
  <2> QED BY <1>1, <2>1 DEF WriterInv, SchemaInv, ScriptObjects
<1>4. calls' \in [Callers -> {"idle", "waiting", "abandoned"} \cup CallEnd]
  BY <1>1 DEF WriterInv, CallsInv, CallEnd
<1>5. ASSUME NEW c \in Callers PROVE CallerOK(c)'
  <2>1. CallerOK(c) /\ ToSet(queue') = {}
    BY <1>1 DEF WriterInv, CallsInv, ToSet
  <2> QED BY <1>1, <2>1 DEF CallerOK
<1>6. CallsInv'
  BY <1>1, <1>4, <1>5 DEF CallsInv
<1> QED BY <1>2, <1>3, <1>6 DEF WriterInv

LEMMA ServeInv == WriterInv /\ Serve => WriterInv'
<1> SUFFICES ASSUME WriterInv, Serve PROVE WriterInv'
  OBVIOUS
<1>1. /\ applied \in Seq(Callers) /\ queue \in Seq(Callers) /\ queue # <<>>
      /\ writer = "serving" /\ UNCHANGED <<version, objects, writer, migration, todo, sent>>
  BY DEF Serve, migrations, WriterInv, OrderInv
<1>2. PICK c \in Callers : c = queue[1]
  BY <1>1
<1>3. /\ applied' = Append(applied, c) /\ queue' = RemoveAt(queue, 1)
      /\ calls' = [calls EXCEPT ![c] = IF @ = "waiting" THEN "answered" ELSE @]
  BY <1>2 DEF Serve, NextJob
<1>4. PICK m \in Nat : m = Len(applied)
  BY <1>1
<1>5. PICK n \in Nat \ {0} : n = Len(queue)
  BY <1>1
<1>6. /\ applied' \in Seq(Callers) /\ ToSet(applied') = ToSet(applied) \cup {c}
      /\ DOMAIN applied = 1 .. m /\ DOMAIN applied' = 1 .. m + 1
      /\ applied'[m + 1] = c /\ \A i \in 1 .. m : applied'[i] = applied[i]
  BY <1>1, <1>3, <1>4, AppendSet
<1>7. /\ queue' \in Seq(Callers) /\ ToSet(queue) = ToSet(queue') \cup {c}
      /\ DOMAIN queue = 1 .. n /\ DOMAIN queue' = 1 .. n - 1
      /\ \A i \in 1 .. n - 1 : queue'[i] = queue[i + 1]
  BY <1>1, <1>2, <1>3, <1>5, WithoutFirst
<1>8. Place' = Place
  BY <1>1, SamePlaces
<1>9. /\ \A i, j \in 1 .. m : i < j => Place[applied[i]] < Place[applied[j]]
      /\ \A i, j \in 1 .. n : i < j => Place[queue[i]] < Place[queue[j]]
      /\ \A i \in 1 .. m, j \in 1 .. n : Place[applied[i]] < Place[queue[j]]
  BY <1>6, <1>7 DEF WriterInv, OrderInv
<1>10. ASSUME NEW i \in 1 .. m + 1, NEW j \in 1 .. m + 1, i < j
       PROVE  Place[applied'[i]] < Place[applied'[j]]
  <2>1. i \in 1 .. m /\ applied'[i] = applied[i]
    BY <1>6, <1>10
  <2>2. CASE j = m + 1
    BY <1>2, <1>6, <1>9, <2>1, <2>2
  <2>3. CASE j # m + 1
    BY <1>6, <1>9, <1>10, <2>1, <2>3
  <2> QED BY <2>2, <2>3
<1>11. ASSUME NEW j \in 1 .. n - 1
       PROVE  /\ \A i \in 1 .. n - 1 : i < j => Place[queue'[i]] < Place[queue'[j]]
              /\ \A i \in 1 .. m + 1 : Place[applied'[i]] < Place[queue'[j]]
  <2>1. j + 1 \in 1 .. n /\ queue'[j] = queue[j + 1]
    BY <1>7
  <2>2. ASSUME NEW i \in 1 .. n - 1, i < j PROVE Place[queue'[i]] < Place[queue'[j]]
    <3>1. i + 1 \in 1 .. n /\ queue'[i] = queue[i + 1] /\ i + 1 < j + 1
      BY <1>7, <2>2
    <3> QED BY <1>9, <2>1, <3>1
  <2>3. ASSUME NEW i \in 1 .. m + 1 PROVE Place[applied'[i]] < Place[queue'[j]]
    <3>1. CASE i = m + 1
      <4>1. 1 \in 1 .. n /\ 1 < j + 1 /\ applied'[i] = queue[1]
        BY <1>2, <1>6, <3>1
      <4> QED BY <1>9, <2>1, <4>1
    <3>2. CASE i # m + 1
      BY <1>6, <1>9, <2>1, <3>2
    <3> QED BY <3>1, <3>2
  <2> QED BY <2>2, <2>3
<1>12. OrderInv'
  <2>1. ToSet(applied') \subseteq ToSet(sent') /\ ToSet(queue') \subseteq ToSet(sent')
    BY <1>1, <1>6, <1>7 DEF WriterInv, OrderInv
  <2>2. SentOnce' /\ sent' \in Seq(Callers)
    BY <1>1 DEF WriterInv, OrderInv, SentOnce
  <2> QED BY <1>6, <1>7, <1>8, <1>10, <1>11, <2>1, <2>2 DEF OrderInv
<1>13. ASSUME NEW d \in Callers PROVE CallerOK(d)'
  <2>1. CallerOK(d) /\ calls \in [Callers -> {"idle", "waiting", "abandoned"} \cup CallEnd]
    BY DEF WriterInv, CallsInv
  <2>2. CASE d = c
    <3>1. c \in ToSet(queue) /\ c \in ToSet(applied') /\ c \notin ToSet(queue')
      BY <1>1, <1>2, <1>3, <1>6, <1>7, Apart DEF WriterInv
    <3> QED BY <1>1, <1>3, <2>1, <2>2, <3>1 DEF CallerOK
  <2>3. CASE d # c
    BY <1>1, <1>3, <1>6, <1>7, <2>1, <2>3 DEF CallerOK
  <2> QED BY <2>2, <2>3
<1>14. CallsInv'
  <2>1. calls' \in [Callers -> {"idle", "waiting", "abandoned"} \cup CallEnd]
    BY <1>3 DEF WriterInv, CallsInv, CallEnd
  <2> QED BY <1>1, <1>13, <2>1 DEF CallsInv
<1>15. SchemaInv'
  BY <1>1 DEF WriterInv, SchemaInv, ScriptObjects
<1> QED BY <1>12, <1>14, <1>15 DEF WriterInv

-----------------------------------------------------------------------------
(* The callers *)

LEMMA CallInv ==
  ASSUME WriterInv, NEW c \in Callers, Call(c)
  PROVE  WriterInv'
<1>1. /\ calls \in [Callers -> {"idle", "waiting", "abandoned"} \cup CallEnd]
      /\ calls[c] = "idle" /\ writer # "off" /\ CallerOK(c)
      /\ UNCHANGED <<version, objects, applied, writer, migration, todo>>
  BY DEF Call, disk, migrations, WriterInv, CallsInv
<1>2. c \notin ToSet(sent) /\ c \notin ToSet(queue) /\ c \notin ToSet(applied)
  BY <1>1 DEF CallerOK, WriterInv, OrderInv
<1>3. SchemaInv'
  BY <1>1 DEF WriterInv, SchemaInv, ScriptObjects
<1>4. CASE writer = "dead"
  <2>1. UNCHANGED <<queue, sent>> /\ calls' = [calls EXCEPT ![c] = "panicked"]
    BY <1>4 DEF Call
  <2>2. OrderInv'
    BY <1>1, <2>1, UnmovedOrder DEF WriterInv
  <2>3. CallsInv'
    BY <1>1, <1>2, <2>1 DEF WriterInv, CallsInv, CallEnd, CallerOK
  <2> QED BY <1>3, <2>2, <2>3 DEF WriterInv
<1>5. CASE writer # "dead"
  <2>1. /\ queue' = Append(queue, c) /\ sent' = Append(sent, c)
        /\ calls' = [calls EXCEPT ![c] = "waiting"]
    BY <1>5 DEF Call, AfterSend
  <2>2. /\ sent' \in Seq(Callers) /\ SentOnce' /\ ToSet(sent') = ToSet(sent) \cup {c}
        /\ \A d \in ToSet(sent) : Place'[d] = Place[d] /\ Place[d] < Place'[c]
    BY <1>2, <2>1, Appended DEF WriterInv
  <2>3. PICK n \in Nat : n = Len(queue)
    BY DEF WriterInv, OrderInv
  <2>4. /\ queue' \in Seq(Callers) /\ ToSet(queue') = ToSet(queue) \cup {c}
        /\ DOMAIN queue = 1 .. n /\ DOMAIN queue' = 1 .. n + 1
        /\ queue'[n + 1] = c /\ \A i \in 1 .. n : queue'[i] = queue[i]
    BY <2>1, <2>3, AppendSet DEF WriterInv, OrderInv
  <2>5. /\ \A i \in 1 .. n : queue[i] \in ToSet(sent)
        /\ \A i \in DOMAIN applied : applied[i] \in ToSet(sent)
    BY <2>4 DEF WriterInv, OrderInv, ToSet
  <2>6. ASSUME NEW i \in DOMAIN queue', NEW j \in DOMAIN queue', i < j
        PROVE  Place'[queue'[i]] < Place'[queue'[j]]
    <3>1. CASE j = n + 1
      BY <2>2, <2>4, <2>5, <2>6, <3>1
    <3>2. CASE j # n + 1
      <4>1. i \in 1 .. n /\ j \in 1 .. n /\ queue'[i] = queue[i] /\ queue'[j] = queue[j]
        BY <2>4, <2>6, <3>2
      <4>2. Place[queue[i]] < Place[queue[j]]
        BY <2>4, <2>6, <4>1 DEF WriterInv, OrderInv
      <4> QED BY <2>2, <2>5, <4>1, <4>2
    <3> QED BY <3>1, <3>2
  <2>7. ASSUME NEW i \in DOMAIN applied, NEW j \in DOMAIN queue'
        PROVE  Place'[applied[i]] < Place'[queue'[j]]
    <3>1. CASE j = n + 1
      BY <2>2, <2>4, <2>5, <3>1
    <3>2. CASE j # n + 1
      <4>1. j \in 1 .. n /\ queue'[j] = queue[j]
        BY <2>4, <3>2
      <4>2. Place[applied[i]] < Place[queue[j]]
        BY <2>4, <4>1 DEF WriterInv, OrderInv
      <4> QED BY <2>2, <2>5, <4>1, <4>2
    <3> QED BY <3>1, <3>2
  <2>8. ASSUME NEW i \in DOMAIN applied, NEW j \in DOMAIN applied, i < j
        PROVE  Place'[applied[i]] < Place'[applied[j]]
    BY <2>2, <2>5, <2>8 DEF WriterInv, OrderInv
  <2>9. OrderInv'
    <3>1. ToSet(applied) \subseteq ToSet(sent') /\ ToSet(queue') \subseteq ToSet(sent')
      BY <2>2, <2>4 DEF WriterInv, OrderInv
    <3>2. applied \in Seq(Callers) /\ applied' = applied
      BY <1>1 DEF WriterInv, OrderInv
    <3> QED BY <2>2, <2>4, <2>6, <2>7, <2>8, <3>1, <3>2 DEF OrderInv
  <2>10. CallsInv'
    <3>1. calls' \in [Callers -> {"idle", "waiting", "abandoned"} \cup CallEnd]
      BY <1>1, <2>1
    <3>2. ASSUME NEW d \in Callers PROVE CallerOK(d)'
      <4>1. CallerOK(d) /\ applied' = applied
        BY <1>1 DEF WriterInv, CallsInv
      <4> QED BY <1>1, <1>2, <2>1, <2>2, <2>4, <4>1 DEF CallerOK
    <3>3. writer' \in {"opening", "migrating", "serving"}
      BY <1>1, <1>5 DEF WriterInv, CallsInv
    <3> QED BY <3>1, <3>2, <3>3 DEF CallsInv
  <2> QED BY <1>3, <2>9, <2>10 DEF WriterInv
<1> QED BY <1>4, <1>5

LEMMA AbandonInv ==
  ASSUME WriterInv, NEW c \in Callers, Abandon(c)
  PROVE  WriterInv'
<1>1. /\ calls[c] = "waiting" /\ calls' = [calls EXCEPT ![c] = "abandoned"]
      /\ UNCHANGED <<version, objects, applied, writer, migration, todo, queue, sent>>
  BY DEF Abandon, QueueAfterDrop, disk, migrations
<1>2. OrderInv'
  BY <1>1, UnmovedOrder DEF WriterInv
<1>3. SchemaInv'
  BY <1>1 DEF WriterInv, SchemaInv, ScriptObjects
<1>4. CallsInv'
  BY <1>1 DEF WriterInv, CallsInv, CallerOK
<1> QED BY <1>2, <1>3, <1>4 DEF WriterInv

LEMMA NextInv == WriterInv /\ [Next]_vars => WriterInv'
<1> SUFFICES ASSUME WriterInv, [Next]_vars PROVE WriterInv'
  OBVIOUS
<1>1. CASE Start
  BY <1>1, StartInv
<1>2. CASE Work
  BY <1>2, ReadVersionInv, CreateInv, SetVersionInv, OpenForJobsInv, ServeInv DEF Work
<1>3. CASE Panic
  BY <1>3, PanicInv
<1>4. CASE \E c \in Callers : Call(c) \/ Abandon(c)
  BY <1>4, CallInv, AbandonInv
<1>5. CASE Kill
  BY <1>5, KillInv
<1>6. CASE UNCHANGED vars
  <2>1. UNCHANGED <<version, objects, applied, writer, migration, todo, queue, calls, sent>>
    BY <1>6 DEF vars, disk, migrations
  <2>2. OrderInv'
    BY <2>1, UnmovedOrder DEF WriterInv
  <2>3. CallsInv' /\ SchemaInv'
    BY <2>1 DEF WriterInv, CallsInv, CallerOK, SchemaInv, ScriptObjects, Script
  <2> QED BY <2>2, <2>3 DEF WriterInv
<1> QED BY <1>1, <1>2, <1>3, <1>4, <1>5, <1>6 DEF Next

LEMMA Inductive == Spec => []WriterInv
<1> QED BY InitInv, NextInv, PTL DEF Spec

-----------------------------------------------------------------------------
(* What the thread promises *)

\* Every variable stays in its type.
THEOREM TypeCorrect == Spec => []TypeOK
<1> QED BY Inductive, InvImplies, PTL

\* Jobs run in the order they were queued and none runs twice, however often the process
\* dies (db/mod.rs: every query is funnelled through one thread).
THEOREM OnceInOrder == Spec => []JobsRunOnceInOrder
<1> QED BY Inductive, InvImplies, PTL

\* The job of a caller with a reply ran, and that of one that panicked did not (Db::call).
THEOREM TrueReplies == Spec => []RepliesAreTrue
<1> QED BY Inductive, InvImplies, PTL

\* No job runs before the last migration is through (Db::open).
THEOREM FullSchema == Spec => JobsRunOnFullSchema
<1> DEFINE A == applied' # applied => /\ version = Len(Scripts)
                                      /\ objects = ScriptObjects(Len(Scripts))
<1>1. WriterInv /\ [Next]_vars => A
  <2> SUFFICES ASSUME WriterInv, [Next]_vars, applied' # applied
               PROVE  version = Len(Scripts) /\ objects = ScriptObjects(Len(Scripts))
    OBVIOUS
  <2>1. Serve
    BY DEF Next, Start, Work, ReadVersion, Create, SetVersion, OpenForJobs, Panic, Call, Abandon,
           Kill, vars, disk
  <2> QED BY <2>1, InvImplies DEF Serve
<1>2. Spec => [][A]_vars
  BY <1>1, Inductive, PTL DEF Spec
<1> QED BY <1>2 DEF JobsRunOnFullSchema

-----------------------------------------------------------------------------
(* The thread implements the abstract call *)

LEMMA ServeRuns ==
  ASSUME WriterInv, Serve
  PROVE  \E c \in Callers : Calls!Run(c)
<1>1. /\ applied \in Seq(Callers) /\ queue \in Seq(Callers) /\ queue # <<>> /\ sent' = sent
      /\ calls \in [Callers -> {"idle", "waiting", "abandoned"} \cup CallEnd]
  BY DEF Serve, WriterInv, OrderInv, CallsInv
<1>2. PICK c \in Callers : c = queue[1]
  BY <1>1
<1>3. /\ applied' = Append(applied, c) /\ queue' = RemoveAt(queue, 1)
      /\ calls' = [calls EXCEPT ![c] = IF @ = "waiting" THEN "answered" ELSE @]
  BY <1>2 DEF Serve, NextJob
<1>4. ToSet(applied') = ToSet(applied) \cup {c}
  BY <1>1, <1>3, AppendSet
<1>5. ToSet(queue) = ToSet(queue') \cup {c} /\ c \notin ToSet(queue') /\ c \notin ToSet(applied)
  BY <1>1, <1>2, <1>3, WithoutFirst, Apart DEF WriterInv
<1>6. Jobs[c] = "queued" /\ Jobs' = [Jobs EXCEPT ![c] = "done"]
  BY <1>1, <1>4, <1>5 DEF Jobs
<1>7. Outcomes' = [Outcomes EXCEPT ![c] = IF @ = "waiting" THEN "answered" ELSE @]
  BY <1>1, <1>3 DEF Outcomes, CallEnd
<1> QED BY <1>6, <1>7 DEF Calls!Run

LEMMA CallQueues ==
  ASSUME WriterInv, NEW c \in Callers, Call(c)
  PROVE  Calls!Queue(c) \/ Calls!Refuse(c)
<1>1. /\ calls \in [Callers -> {"idle", "waiting", "abandoned"} \cup CallEnd]
      /\ calls[c] = "idle" /\ applied' = applied
      /\ applied \in Seq(Callers) /\ queue \in Seq(Callers) /\ sent \in Seq(Callers)
  BY DEF Call, disk, WriterInv, OrderInv, CallsInv
<1>2. c \notin ToSet(sent) /\ c \notin ToSet(queue) /\ c \notin ToSet(applied)
  BY <1>1 DEF WriterInv, CallsInv, CallerOK, OrderInv
<1>3. Outcomes[c] = "idle"
  BY <1>1 DEF Outcomes
<1>4. CASE writer = "dead"
  <2>1. UNCHANGED <<queue, sent>> /\ calls' = [calls EXCEPT ![c] = "panicked"]
    BY <1>4 DEF Call
  <2>2. Outcomes' = [Outcomes EXCEPT ![c] = "failed"] /\ Jobs' = Jobs
    BY <1>1, <2>1 DEF Outcomes, Jobs
  <2> QED BY <1>3, <2>2 DEF Calls!Refuse
<1>5. CASE writer # "dead"
  <2>1. /\ queue' = Append(queue, c) /\ sent' = Append(sent, c)
        /\ calls' = [calls EXCEPT ![c] = "waiting"]
    BY <1>5 DEF Call, AfterSend
  <2>2. ToSet(queue') = ToSet(queue) \cup {c} /\ ToSet(sent') = ToSet(sent) \cup {c}
    BY <1>1, <2>1, AppendSet
  <2>3. Jobs' = [Jobs EXCEPT ![c] = "queued"]
    BY <1>1, <1>2, <2>2 DEF Jobs
  <2>4. Outcomes' = [Outcomes EXCEPT ![c] = "waiting"]
    BY <1>1, <2>1 DEF Outcomes
  <2> QED BY <1>3, <2>3, <2>4 DEF Calls!Queue
<1> QED BY <1>4, <1>5

LEMMA AbandonLeaves ==
  ASSUME WriterInv, NEW c \in Callers, Abandon(c)
  PROVE  Calls!Leave(c)
<1>1. /\ calls \in [Callers -> {"idle", "waiting", "abandoned"} \cup CallEnd]
      /\ calls[c] = "waiting" /\ calls' = [calls EXCEPT ![c] = "abandoned"]
      /\ UNCHANGED <<applied, queue, sent>>
  BY DEF Abandon, QueueAfterDrop, disk, WriterInv, CallsInv
<1>2. Outcomes[c] = "waiting" /\ Outcomes' = [Outcomes EXCEPT ![c] = "gone"]
  BY <1>1 DEF Outcomes
<1>3. Jobs' = Jobs
  BY <1>1 DEF Jobs
<1> QED BY <1>2, <1>3 DEF Calls!Leave

\* The channel goes with the thread, and the callers in it hear of it or go too.
LEMMA EmptyingLoses ==
  ASSUME WriterInv, Panic \/ Kill
  PROVE  Calls!Lose
<1>1. queue' = <<>> /\ UNCHANGED <<applied, sent>>
  BY DEF Panic, Kill, disk
<1>2. Jobs' = [c \in Callers |-> IF Jobs[c] = "queued" THEN "lost" ELSE Jobs[c]]
  <2>1. ToSet(queue') = {}
    BY <1>1 DEF ToSet
  <2>2. ToSet(queue) \subseteq ToSet(sent) /\ ToSet(applied) \cap ToSet(queue) = {}
    BY Apart DEF WriterInv, OrderInv
  <2> QED BY <1>1, <2>1, <2>2 DEF Jobs
<1>3. CASE Panic
  <2>1. Outcomes' = [c \in Callers |-> IF Outcomes[c] = "waiting" THEN "failed" ELSE Outcomes[c]]
    BY <1>3 DEF Panic, AfterPanic, Outcomes
  <2> QED BY <1>2, <2>1 DEF Calls!Lose
<1>4. CASE Kill
  <2>1. Outcomes' = [c \in Callers |-> IF Outcomes[c] = "waiting" THEN "gone" ELSE Outcomes[c]]
    BY <1>4 DEF Kill, Outcomes
  <2> QED BY <1>2, <2>1 DEF Calls!Lose
<1> QED BY <1>3, <1>4

\* The thread, the channel and the replies together are a call that runs its job once or
\* never and answers when it has run (db/mod.rs).
THEOREM Implements == Spec => ImplementsCalls
<1>1. Init => Calls!Init
  <2> SUFFICES ASSUME Init PROVE Calls!Init
    OBVIOUS
  <2>1. ToSet(applied) = {} /\ ToSet(queue) = {} /\ ToSet(sent) = {}
    BY DEF Init, ToSet
  <2>2. Jobs = [c \in Callers |-> "unsent"]
    BY <2>1 DEF Jobs
  <2>3. Outcomes = [c \in Callers |-> "idle"]
    BY DEF Init, Outcomes
  <2> QED BY <2>2, <2>3 DEF Calls!Init
<1>2. WriterInv /\ [Next]_vars => [Calls!Next]_Calls!vars
  <2> SUFFICES ASSUME WriterInv, [Next]_vars PROVE [Calls!Next]_Calls!vars
    OBVIOUS
  <2>1. CASE Serve
    BY <2>1, ServeRuns DEF Calls!Next
  <2>2. CASE \E c \in Callers : Call(c) \/ Abandon(c)
    BY <2>2, CallQueues, AbandonLeaves DEF Calls!Next
  <2>3. CASE Panic \/ Kill
    BY <2>3, EmptyingLoses DEF Calls!Next
  <2>4. CASE UNCHANGED <<applied, queue, calls, sent>>
    BY <2>4 DEF Calls!vars, Jobs, Outcomes
  <2>5. Start \/ ReadVersion \/ Create \/ SetVersion \/ OpenForJobs \/ UNCHANGED vars
          => UNCHANGED <<applied, queue, calls, sent>>
    BY DEF Start, ReadVersion, Create, SetVersion, OpenForJobs, vars, disk
  <2> QED BY <2>1, <2>2, <2>3, <2>4, <2>5 DEF Next, Work
<1> QED BY <1>1, <1>2, Inductive, PTL DEF Spec, ImplementsCalls, Calls!Spec

-----------------------------------------------------------------------------
(* The process *)

\* Whatever main, its accept loop and its end do, the database thread does what module
\* DbWriter says, and so everything above holds in the server (main.rs).
THEOREM ServerRunsThread == ServerSpec => Spec
<1>1. ServerInit => Init
  BY DEF ServerInit
<1>2. [ServerNext]_allVars => [Next]_vars
  BY DEF ServerNext, Launch, Bind, BindFails, Signal, RemoveSocket, Exit, Crash, ThreadStep,
         HandlerStep, Next, allVars
<1> QED BY <1>1, <1>2, PTL DEF ServerSpec, Spec

\* While the server accepts, the socket file is its listener's own, and without a process
\* no file that a listener bound is left as if it were alive (main.rs).
THEOREM SocketOurs == ServerSpec => []SocketIsOurs
<1>1. ServerInit => SocketIsOurs
  BY DEF ServerInit, SocketIsOurs, Accepting
<1>2. SocketIsOurs /\ [ServerNext]_allVars => SocketIsOurs'
  BY DEF ServerNext, Launch, Bind, BindFails, Signal, RemoveSocket, Exit, Crash, ThreadStep,
         HandlerStep, allVars, server, SocketIsOurs, Accepting, FileBeforeBind, FileAfterBind
<1> QED BY <1>1, <1>2, PTL DEF ServerSpec
=============================================================================
