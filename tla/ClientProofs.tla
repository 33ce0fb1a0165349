---------------------------- MODULE ClientProofs ----------------------------
(* A client's concurrent parts: the monitors, for every set of names and     *)
(* targets, any number of installations and any number of threads that could *)
(* not be started; the runner, for every clock, delay and network; and the   *)
(* extension domains, for any number of them and of starts of the process.   *)
EXTENDS ClientMonitors, DeviceClient, HostExtensions, FiniteSetTheorems, TLAPS

USE MonitorAssumption
-----------------------------------------------------------------------------
(* The monitors. *)

Entry == [target : Targets, latency : Targets \cup {NotMeasured}, generation : Nat]
Thread == [name : Names, target : Targets, generation : Nat, at : {"top", "probe"}]

MonitorTypes ==
    /\ generation \in Nat
    /\ \A n \in DOMAIN monitors : monitors[n] \in Entry
    /\ threads \subseteq Thread
    /\ \A p \in unstarted : \E n \in Names, g \in Nat : p = <<n, g>>

\* Every number in use was handed out before.
NumbersPast ==
    /\ \A n \in DOMAIN monitors : monitors[n].generation <= generation
    /\ \A t \in threads : t.generation <= generation
    /\ \A n \in Names, g \in Nat : <<n, g>> \in unstarted => g <= generation

\* Of the threads of a name, at most one has the number of the monitor, none exactly
\* when it did not start, and it measures the target that is installed.
OwnersAreRight ==
    \A n \in DOMAIN monitors :
        /\ \A t, u \in Owners(n) : t = u
        /\ Owners(n) = {} <=> <<n, monitors[n].generation>> \in unstarted
        /\ \A t \in Owners(n) : t.target = monitors[n].target

MonitorInv ==
    /\ MonitorTypes /\ NumbersPast /\ OwnersAreRight /\ LatencyOfCurrentTarget
    /\ DOMAIN monitors \subseteq Names

\* A thread that goes on, or records a latency, stays the owner of what it owned.
LEMMA ThreadGoesOn ==
    ASSUME MonitorInv, NEW t \in threads, NEW u \in Thread,
           u.name = t.name, u.generation = t.generation, u.target = t.target,
           threads' = (threads \ {t}) \cup {u},
           DOMAIN monitors' = DOMAIN monitors,
           \A n \in DOMAIN monitors : /\ monitors'[n].generation = monitors[n].generation
                                      /\ monitors'[n].target = monitors[n].target,
           UNCHANGED <<generation, unstarted>>
    PROVE  NumbersPast' /\ OwnersAreRight'
<1> USE DEF MonitorInv
<1>1. NumbersPast'
  BY DEF NumbersPast
<1>2. ASSUME NEW n \in DOMAIN monitors
      PROVE  /\ \A v \in Owners(n)' : v \in Owners(n) \ {t} \/ (v = u /\ t \in Owners(n))
             /\ t \in Owners(n) => u \in Owners(n)'
             /\ Owners(n) \ {t} \subseteq Owners(n)'
  BY <1>2 DEF Owners
<1>3. ASSUME NEW n \in DOMAIN monitors
      PROVE  /\ \A v, w \in Owners(n)' : v = w
             /\ Owners(n)' = {} <=> Owners(n) = {}
             /\ \A v \in Owners(n)' : v.target = monitors[n].target
  <2>1. \A v, w \in Owners(n) : v = w
    BY <1>3 DEF OwnersAreRight
  <2>2. \A v \in Owners(n) : v.target = monitors[n].target
    BY <1>3 DEF OwnersAreRight
  <2>3. \A v, w \in Owners(n)' : v = w
    BY <1>2, <1>3, <2>1
  <2>4. Owners(n)' = {} <=> Owners(n) = {}
    BY <1>2, <1>3
  <2>5. \A v \in Owners(n)' : v.target = monitors[n].target
    BY <1>2, <1>3, <2>2
  <2> QED BY <2>3, <2>4, <2>5
<1>4. OwnersAreRight'
  BY <1>3 DEF OwnersAreRight
<1> QED BY <1>1, <1>4

\* The top of a thread's loop: one that does not own its monitor is nobody's owner.
LEMMA TopStep == ASSUME MonitorInv, NEW t \in threads, Top(t) PROVE MonitorInv'
<1> USE DEF MonitorInv
<1>1. UNCHANGED <<monitors, generation, unstarted>>
  BY DEF Top
<1>2. CASE Owned(t)
  <2> DEFINE u == [t EXCEPT !.at = "probe"]
  <2>1. u \in Thread /\ u.name = t.name /\ u.generation = t.generation /\ u.target = t.target
    BY DEF MonitorTypes, Thread
  <2>2. threads' = (threads \ {t}) \cup {u}
    BY <1>2 DEF Top
  <2> HIDE DEF u
  <2>3. NumbersPast' /\ OwnersAreRight'
    BY <1>1, <2>1, <2>2, ThreadGoesOn
  <2> QED BY <1>1, <2>1, <2>2, <2>3 DEF MonitorTypes, LatencyOfCurrentTarget
<1>3. CASE ~Owned(t)
  <2>1. threads' = threads \ {t}
    BY <1>3 DEF Top
  <2>2. \A n \in DOMAIN monitors : Owners(n)' = Owners(n)
    BY <1>1, <1>3, <2>1 DEF Owners, Owned
  <2>3. OwnersAreRight'
    BY <1>1, <2>2 DEF OwnersAreRight
  <2> QED BY <1>1, <2>1, <2>3 DEF MonitorTypes, NumbersPast, LatencyOfCurrentTarget
<1> QED BY <1>2, <1>3

\* A latency is recorded by the owner, which measures the target that is installed.
LEMMA RecordStep == ASSUME MonitorInv, NEW t \in threads, Record(t) PROVE MonitorInv'
<1> USE DEF MonitorInv
<1> DEFINE u == [t EXCEPT !.at = "top"]
<1>1. u \in Thread /\ u.name = t.name /\ u.generation = t.generation /\ u.target = t.target
  BY DEF MonitorTypes, Thread
<1>2. threads' = (threads \ {t}) \cup {u} /\ UNCHANGED <<generation, unstarted>>
  BY DEF Record
<1> HIDE DEF u
<1>3. /\ DOMAIN monitors' = DOMAIN monitors
      /\ \A n \in DOMAIN monitors :
            /\ monitors'[n] \in Entry
            /\ monitors'[n].generation = monitors[n].generation
            /\ monitors'[n].target = monitors[n].target
            /\ monitors'[n].latency \in {NotMeasured, monitors[n].target}
  <2>1. CASE Owned(t)
    <3> DEFINE entry == [monitors[t.name] EXCEPT !.latency = t.target]
    <3>1. monitors' = [monitors EXCEPT ![t.name] = entry]
      BY <2>1, Zenon DEF Record
    <3>2. t.name \in DOMAIN monitors /\ t \in Owners(t.name)
      BY <2>1 DEF Owned, Owners
    <3>3. t.target = monitors[t.name].target
      BY <3>2 DEF OwnersAreRight
    <3>4. /\ entry \in Entry /\ entry.generation = monitors[t.name].generation
          /\ entry.target = monitors[t.name].target /\ entry.latency = t.target
      BY <3>2 DEF MonitorTypes, Entry, Thread
    <3> HIDE DEF entry
    <3> QED BY <3>1, <3>2, <3>3, <3>4 DEF MonitorTypes, LatencyOfCurrentTarget
  <2>2. CASE ~Owned(t)
    BY <2>2 DEF Record, MonitorTypes, LatencyOfCurrentTarget
  <2> QED BY <2>1, <2>2
<1>4. NumbersPast' /\ OwnersAreRight'
  BY <1>1, <1>2, <1>3, ThreadGoesOn
<1> QED BY <1>1, <1>2, <1>3, <1>4 DEF MonitorTypes, LatencyOfCurrentTarget

\* A list is installed: what is kept keeps its owner, what is new has a number that no
\* thread of an earlier list has.
LEMMA InstallStep == ASSUME MonitorInv, NEW wanted \in Wanted, Install(wanted) PROVE MonitorInv'
<1> USE DEF MonitorInv
<1> DEFINE new == NewMonitors(wanted)
           thread(n) == [name |-> n, target |-> wanted[n],
                         generation |-> monitors'[n].generation, at |-> "top"]
<1>1. /\ DOMAIN wanted \subseteq Names
      /\ \A n \in DOMAIN wanted : wanted[n] \in Targets
  BY DEF Wanted
<1>2. PICK started \in SUBSET new :
         /\ threads' = threads \cup {thread(n) : n \in started}
         /\ unstarted' = unstarted \cup {<<n, generation'>> : n \in new \ started}
  BY Zenon DEF Install
<1>3. /\ DOMAIN monitors' = DOMAIN wanted /\ generation' = generation + 1
      /\ \A n \in DOMAIN wanted :
            monitors'[n] = IF Kept(n, wanted[n]) THEN monitors[n]
                           ELSE [target |-> wanted[n], latency |-> NotMeasured,
                                 generation |-> generation']
  BY DEF Install
<1>4. \A n \in DOMAIN wanted : n \in new <=> ~Kept(n, wanted[n])
  BY DEF NewMonitors
<1>5. new \subseteq DOMAIN wanted
  BY DEF NewMonitors
<1> HIDE DEF new
<1>6. /\ \A n \in DOMAIN wanted \ new : /\ n \in DOMAIN monitors /\ monitors'[n] = monitors[n]
                                        /\ monitors[n].target = wanted[n]
      /\ \A n \in new : monitors'[n] = [target |-> wanted[n], latency |-> NotMeasured,
                                        generation |-> generation + 1]
  BY <1>3, <1>4, <1>5 DEF Kept
<1>f. ASSUME NEW n \in new
      PROVE  /\ monitors'[n].target = wanted[n] /\ monitors'[n].latency = NotMeasured
             /\ monitors'[n].generation = generation + 1
             /\ monitors'[n] \in Entry
  <2> DEFINE entry == [target |-> wanted[n], latency |-> NotMeasured,
                       generation |-> generation + 1]
  <2>1. monitors'[n] = entry
    BY <1>6, <1>f
  <2>2. /\ entry.target = wanted[n] /\ entry.latency = NotMeasured
        /\ entry.generation = generation + 1 /\ entry \in Entry
    BY <1>1, <1>5, <1>f DEF MonitorTypes, Entry
  <2> HIDE DEF entry
  <2> QED BY <2>1, <2>2
<1>7. \A n \in new : thread(n) = [name |-> n, target |-> wanted[n],
                                  generation |-> generation + 1, at |-> "top"]
  BY <1>f
<1> HIDE DEF thread
<1>8. MonitorTypes'
  <2>1. \A n \in DOMAIN monitors' : monitors'[n] \in Entry
    BY <1>3, <1>6, <1>f DEF MonitorTypes
  <2>2. threads' \subseteq Thread
    BY <1>1, <1>2, <1>5, <1>7 DEF MonitorTypes, Thread
  <2>3. \A p \in unstarted' : \E n \in Names, g \in Nat : p = <<n, g>>
    BY <1>1, <1>2, <1>3, <1>5 DEF MonitorTypes
  <2> QED BY <1>3, <2>1, <2>2, <2>3 DEF MonitorTypes
<1>9. NumbersPast'
  <2>1. \A n \in DOMAIN monitors' : monitors'[n].generation <= generation'
    BY <1>3, <1>6, <1>f DEF NumbersPast, MonitorTypes, Entry
  <2>2. \A t \in threads' : t.generation <= generation'
    BY <1>2, <1>3, <1>7 DEF NumbersPast, MonitorTypes, Thread
  <2>3. \A n \in Names, g \in Nat : <<n, g>> \in unstarted' => g <= generation'
    BY <1>2, <1>3 DEF NumbersPast, MonitorTypes
  <2> QED BY <2>1, <2>2, <2>3 DEF NumbersPast
<1>10. ASSUME NEW n \in DOMAIN wanted
       PROVE  /\ \A t, u \in Owners(n)' : t = u
              /\ Owners(n)' = {} <=> <<n, monitors'[n].generation>> \in unstarted'
              /\ \A t \in Owners(n)' : t.target = monitors'[n].target
  <2>1. CASE n \in new
    <3>1. monitors'[n].generation = generation + 1 /\ monitors'[n].target = wanted[n]
      BY <1>f, <2>1
    <3>2. \A t \in threads : t.generation # generation + 1
      BY DEF NumbersPast, MonitorTypes, Thread
    <3>3. <<n, generation + 1>> \notin unstarted
      BY <1>1 DEF NumbersPast, MonitorTypes
    <3>4. Owners(n)' = {t \in threads' : t.name = n /\ t.generation = generation + 1}
      BY <3>1 DEF Owners
    <3>5. CASE n \in started
      <4>1. Owners(n)' = {thread(n)}
        BY <1>2, <1>7, <2>1, <3>2, <3>4, <3>5
      <4>2. <<n, generation + 1>> \notin unstarted'
        BY <1>2, <1>3, <3>3, <3>5
      <4> QED BY <1>7, <2>1, <3>1, <4>1, <4>2
    <3>6. CASE n \notin started
      <4>1. Owners(n)' = {}
        BY <1>2, <1>7, <3>2, <3>4, <3>6
      <4>2. <<n, generation + 1>> \in unstarted'
        BY <1>2, <1>3, <2>1, <3>6
      <4> QED BY <3>1, <4>1, <4>2
    <3> QED BY <3>5, <3>6
  <2>2. CASE n \notin new
    <3>1. n \in DOMAIN monitors /\ monitors'[n] = monitors[n]
      BY <1>6, <2>2
    <3>2. Owners(n)' = Owners(n)
      BY <1>2, <1>7, <2>2, <3>1 DEF Owners
    <3>3. <<n, monitors[n].generation>> \in unstarted' <=> <<n, monitors[n].generation>> \in unstarted
      BY <1>2, <2>2
    <3> QED BY <3>1, <3>2, <3>3 DEF OwnersAreRight
  <2> QED BY <2>1, <2>2
<1>11. OwnersAreRight'
  BY <1>3, <1>10 DEF OwnersAreRight
<1>12. LatencyOfCurrentTarget'
  BY <1>3, <1>6, <1>f DEF LatencyOfCurrentTarget
<1> QED BY <1>1, <1>3, <1>8, <1>9, <1>11, <1>12

\* The invariant holds of every state.
LEMMA MonitorInvariant == MonitorSpec => []MonitorInv
<1>1. MonitorInit => MonitorInv
  BY DEF MonitorInit, MonitorInv, MonitorTypes, NumbersPast, OwnersAreRight,
         LatencyOfCurrentTarget
<1>2. MonitorInv /\ [MonitorNext]_monitorVars => MonitorInv'
  <2> SUFFICES ASSUME MonitorInv, [MonitorNext]_monitorVars PROVE MonitorInv'
    OBVIOUS
  <2>1. CASE UNCHANGED monitorVars
    BY <2>1 DEF MonitorInv, MonitorTypes, NumbersPast, OwnersAreRight,
                LatencyOfCurrentTarget, Owners, monitorVars
  <2>2. CASE \E wanted \in Wanted : Install(wanted)
    BY <2>2, InstallStep
  <2>3. CASE \E t \in threads : Top(t) \/ Record(t)
    BY <2>3, TopStep, RecordStep
  <2> QED BY <2>1, <2>2, <2>3 DEF MonitorNext
<1> QED BY <1>1, <1>2, PTL DEF MonitorSpec

\* However many lists follow each other, a monitor whose thread started is measured by
\* exactly one.
THEOREM MonitorsOneThreadEach == MonitorSpec => []OneThreadEach
<1>1. ASSUME MonitorInv, NEW n \in DOMAIN monitors
      PROVE  Cardinality(Owners(n)) =
                 IF <<n, monitors[n].generation>> \in unstarted THEN 0 ELSE 1
  <2>1. CASE Owners(n) = {}
    BY <1>1, <2>1, FS_EmptySet DEF MonitorInv, OwnersAreRight
  <2>2. CASE Owners(n) # {}
    <3>1. PICK t : t \in Owners(n)
      BY <2>2
    <3>2. \A u \in Owners(n) : u = t
      BY <1>1, <3>1 DEF MonitorInv, OwnersAreRight
    <3>3. Owners(n) = {t}
      BY <3>1, <3>2
    <3>4. Cardinality({t}) = 1
      BY FS_Singleton
    <3>5. <<n, monitors[n].generation>> \notin unstarted
      BY <1>1, <2>2 DEF MonitorInv, OwnersAreRight
    <3> QED BY <3>3, <3>4, <3>5
  <2> QED BY <2>1, <2>2
<1>2. MonitorInv => OneThreadEach
  BY <1>1 DEF OneThreadEach
<1> QED BY <1>2, MonitorInvariant, PTL

\* No latency is ever shown for a target it was not measured of.
THEOREM MonitorsLatencyOfCurrentTarget == MonitorSpec => []LatencyOfCurrentTarget
<1>1. MonitorInv => LatencyOfCurrentTarget
  BY DEF MonitorInv
<1> QED BY <1>1, MonitorInvariant, PTL
-----------------------------------------------------------------------------
(* The runner. *)

Stamped == [age : Int, digest : Digests \cup {"none"}]

ClientTypes ==
    /\ offset \in Offsets /\ wait \in Nat
    /\ awaiting \in BOOLEAN /\ disturbed \in BOOLEAN
    /\ current \in Stamped /\ boundary \in Stamped /\ abandoned \subseteq Stamped

\* A request is awaited or there is none, and what is awaited was stamped since.
AwaitedIsRecent ==
    /\ ~awaiting => current = NoReport /\ answer = "none"
    /\ current # NoReport => current.age >= -offset /\ current.age + offset <= ReadTimeout

\* What was sent before has been stamped before what is sent now: a second passes
\* between the end of an attempt and the next.
Before(r) ==
    /\ r.age >= -offset
    /\ ~awaiting /\ wait = 0 => r.age > -offset

StampsIncrease ==
    ~disturbed =>
        /\ Before(boundary)
        /\ current # NoReport => boundary.age >= current.age
        /\ current # NoReport /\ answer = "none" => boundary.age > current.age
        /\ \A r \in abandoned : Before(r) /\ (current # NoReport => r.age > current.age)

ClientInv == ClientTypes /\ AwaitedIsRecent /\ StampsIncrease /\ AttemptsSupersede

\* The constants, of which sets of numbers say little to the provers.
LEMMA ClientNumbers ==
  /\ Interval \in Nat \ {0} /\ Slow \in Nat \ {0} /\ ReadTimeout \in Nat \ {0} /\ Skew \in Nat
  /\ Old = Skew + 1
  /\ \A o \in Offsets : o \in Int /\ -Skew <= o /\ o <= Skew /\ ReadTimeout - o <= Skew
<1>1. \A n \in {Interval, Base, Cap, Slow, ReadTimeout} : n \in Nat \ {0}
  BY ClientAssumption
<1>2. Skew \in Nat /\ Offsets \subseteq -Skew..Skew /\ \A o \in Offsets : ReadTimeout - o <= Skew
  BY ClientAssumption
<1>3. Interval \in Nat \ {0} /\ Slow \in Nat \ {0} /\ ReadTimeout \in Nat \ {0}
  BY <1>1
<1>4. ASSUME NEW o \in Offsets
      PROVE  o \in Int /\ -Skew <= o /\ o <= Skew /\ ReadTimeout - o <= Skew
  <2>1. o \in -Skew..Skew
    BY <1>2
  <2> QED BY <1>2, <2>1
<1> QED BY <1>2, <1>3, <1>4 DEF Old

\* However an attempt ends, the runner waits for a second at least.
LEMMA FinishWaits == ASSUME NEW code, Finish(code) PROVE wait' \in Nat \ {0} /\ awaiting' = FALSE
<1>1. CASE wait' = Interval
  BY <1>1, ClientNumbers DEF Finish
<1>2. CASE wait' \in FailureDelays(code)
  <2> DEFINE slow == Max({Slow, Min({Cap, Base * 2^attempt})})
             fast == Max({1, Min({Cap, Base * 2^attempt})})
  <2>1. wait' \in Slow..slow \/ wait' \in 1..Cap \/ wait' \in 1..fast
    BY <1>2 DEF FailureDelays
  <2> HIDE DEF slow, fast
  <2> QED BY <2>1, ClientNumbers DEF Finish
<1> QED BY <1>1, <1>2 DEF Finish

\* A second makes a report older, and those that are past anything stay so.
LEMMA OlderType ==
  ASSUME NEW r \in Stamped
  PROVE  /\ Older(r) \in Stamped
         /\ r.age = Old => Older(r) = r
         /\ r.age # Old => Older(r).age = r.age + 1
<1>1. [r EXCEPT !.age = r.age + 1] = [age |-> r.age + 1, digest |-> r.digest]
  BY DEF Stamped
<1>2. Older(r) = IF r.age = Old THEN r ELSE [age |-> r.age + 1, digest |-> r.digest]
  BY <1>1 DEF Older
<1> QED BY <1>2 DEF Stamped

\* The stamp of no report is as old as any, and grows no older.
LEMMA NoReportType == NoReport \in Stamped /\ NoReport.age = Old /\ Older(NoReport) = NoReport
<1>1. NoReport \in Stamped /\ NoReport.age = Old
  BY ClientNumbers DEF NoReport, Stamped
<1> QED BY <1>1, OlderType

\* All stamps grow older by the same, so their order stays.
LEMMA TickStep == ASSUME ClientInv, Tick PROVE ClientInv'
<1>1. /\ UNCHANGED <<offset, awaiting, answer, disturbed>>
      /\ wait' = IF wait > 0 THEN wait - 1 ELSE 0
      /\ current' = Older(current) /\ boundary' = Older(boundary)
      /\ \A r \in abandoned' : \E x \in abandoned : r = Older(x) /\ r.age < Old
      /\ awaiting /\ current # NoReport => current.age + offset < ReadTimeout
  BY DEF Tick
<1>2. ClientTypes
  BY DEF ClientInv
<1>3. ClientTypes'
  BY <1>1, <1>2, OlderType DEF ClientTypes
<1>4. /\ offset \in Int /\ -Skew <= offset /\ offset <= Skew /\ ReadTimeout - offset <= Skew
      /\ Skew \in Nat /\ ReadTimeout \in Nat /\ Old = Skew + 1
  BY <1>2, ClientNumbers DEF ClientTypes
<1>5. \A r \in Stamped : r.age \in Int /\ Older(r) \in Stamped /\ (r.age = Old \/ Older(r).age = r.age + 1)
                        /\ (r.age = Old => Older(r).age = Old)
  BY OlderType DEF Stamped
<1>6. current = NoReport => current' = NoReport
  BY <1>1, NoReportType
<1>7. current' # NoReport =>
         current # NoReport /\ awaiting /\ current'.age = current.age + 1
         /\ current'.age + offset <= ReadTimeout /\ current.age >= -offset /\ current'.age < Old
  <2> SUFFICES ASSUME current' # NoReport
               PROVE  awaiting /\ current'.age = current.age + 1 /\ current'.age < Old
                      /\ current'.age + offset <= ReadTimeout /\ current.age >= -offset
    BY <1>6
  <2>1. current # NoReport /\ awaiting /\ current \in Stamped /\ current.age >= -offset
        /\ current.age + offset < ReadTimeout
    BY <1>1, <1>2, <1>6 DEF ClientInv, AwaitedIsRecent, ClientTypes
  <2> QED BY <1>1, <1>4, <1>5, <2>1
<1>8. AwaitedIsRecent'
  BY <1>1, <1>4, <1>5, <1>6, <1>7, <1>2 DEF ClientInv, AwaitedIsRecent, ClientTypes
<1>9. ASSUME ~disturbed, NEW r \in Stamped, Before(r)
      PROVE  /\ Older(r).age > -offset
             /\ current' # NoReport =>
                   /\ r.age >= current.age => Older(r).age >= current'.age
                   /\ r.age > current.age => Older(r).age > current'.age
  <2>1. r.age >= -offset /\ r.age \in Int
    BY <1>5, <1>9 DEF Before
  <2>2. current'.age \in Int /\ current.age \in Int
    BY <1>2, <1>3, <1>5 DEF ClientTypes
  <2> QED BY <1>4, <1>5, <1>7, <2>1, <2>2
<1>10. StampsIncrease'
  <2> SUFFICES ASSUME ~disturbed PROVE StampsIncrease'
    BY <1>1 DEF StampsIncrease
  <2>1. Before(boundary)' /\ (current' # NoReport => boundary'.age >= current'.age)
        /\ (current' # NoReport /\ answer = "none" => boundary'.age > current'.age)
    <3>1. /\ boundary \in Stamped /\ Before(boundary)
          /\ current # NoReport => boundary.age >= current.age
          /\ current # NoReport /\ answer = "none" => boundary.age > current.age
      BY <1>2 DEF ClientInv, StampsIncrease, ClientTypes
    <3>2. /\ boundary'.age > -offset
          /\ current' # NoReport =>
                /\ boundary.age >= current.age => boundary'.age >= current'.age
                /\ boundary.age > current.age => boundary'.age > current'.age
      BY <1>1, <1>9, <3>1
    <3>3. boundary'.age \in Int /\ offset \in Int
      BY <1>3, <1>4, <1>5 DEF ClientTypes
    <3>4. Before(boundary)'
      BY <1>1, <3>2, <3>3 DEF Before
    <3> QED BY <1>6, <3>1, <3>2, <3>4
  <2>2. ASSUME NEW r \in abandoned' PROVE Before(r)' /\ (current' # NoReport => r.age > current'.age)
    <3>1. PICK x \in abandoned : r = Older(x)
      BY <1>1, <2>2
    <3>2. x \in Stamped /\ Before(x) /\ (current # NoReport => x.age > current.age)
      BY <1>2 DEF ClientInv, StampsIncrease, ClientTypes
    <3>3. r.age > -offset /\ (current' # NoReport => r.age > current'.age)
      BY <1>6, <1>9, <3>1, <3>2
    <3>4. r.age \in Int
      BY <1>5, <3>1, <3>2
    <3> QED BY <1>1, <1>4, <3>3, <3>4 DEF Before
  <2> QED BY <1>1, <2>1, <2>2 DEF StampsIncrease
<1> QED BY <1>1, <1>3, <1>8, <1>10 DEF ClientInv, AttemptsSupersede
\* An attempt ends, or begins.
LEMMA AttemptStep ==
  ASSUME ClientInv, CollectFails \/ Send \/ Receive \/ GiveUp PROVE ClientInv'
<1>1. ClientTypes /\ AwaitedIsRecent /\ StampsIncrease
  BY DEF ClientInv
<1>2. /\ offset \in Int /\ -Skew <= offset /\ offset <= Skew /\ Old = Skew + 1 /\ Skew \in Nat
      /\ ReadTimeout \in Nat \ {0}
  BY <1>1, ClientNumbers DEF ClientTypes
<1>3. \A r \in Stamped : r.age \in Int
  BY DEF Stamped
<1>4. CASE Send
  <2>1. PICK g \in Digests : current' = [age |-> -offset, digest |-> g]
    BY <1>4 DEF Send
  <2>2. /\ ~awaiting /\ wait = 0 /\ awaiting' = TRUE /\ answer' = "none"
        /\ UNCHANGED <<offset, wait, abandoned, boundary, disturbed>>
    BY <1>4 DEF Send
  <2>3. current' \in Stamped /\ current'.age = -offset
    BY <1>2, <2>1 DEF Stamped
  <2>4. ClientTypes'
    BY <1>1, <2>2, <2>3 DEF ClientTypes
  <2>5. AwaitedIsRecent'
    BY <1>2, <2>2, <2>3 DEF AwaitedIsRecent
  <2>6. ASSUME ~disturbed, NEW r \in abandoned \cup {boundary}
        PROVE  r.age \in Int /\ r.age > -offset
    BY <1>1, <1>3, <2>2, <2>6 DEF StampsIncrease, Before, ClientTypes
  <2>7. StampsIncrease'
    BY <1>2, <2>2, <2>3, <2>6 DEF StampsIncrease, Before
  <2> QED BY <2>2, <2>4, <2>5, <2>7 DEF ClientInv, AttemptsSupersede, Discarded
<1>5. CASE CollectFails \/ Receive \/ GiveUp
  <2>1. /\ current' = NoReport /\ answer' = "none"
        /\ UNCHANGED <<offset, boundary, disturbed>>
        /\ abandoned' \subseteq abandoned \cup (IF current = NoReport THEN {} ELSE {current})
    <3>1. CASE CollectFails
      BY <1>1, <3>1 DEF CollectFails, AwaitedIsRecent, network
    <3>2. CASE Receive
      BY <3>2 DEF Receive
    <3>3. CASE GiveUp
      BY <3>3 DEF GiveUp
    <3> QED BY <1>5, <3>1, <3>2, <3>3
  <2>2. \E code : Finish(code)
    BY <1>5 DEF CollectFails, Receive, GiveUp
  <2>3. wait' \in Nat \ {0} /\ awaiting' = FALSE
    BY <2>2, FinishWaits
  <2>4. ClientTypes'
    BY <1>1, <2>1, <2>3, NoReportType DEF ClientTypes
  <2>5. AwaitedIsRecent'
    BY <2>1 DEF AwaitedIsRecent
  <2>6. ASSUME ~disturbed, NEW r \in abandoned' \cup {boundary}
        PROVE  r.age >= -offset
    BY <1>1, <2>1, <2>6 DEF StampsIncrease, Before, ClientTypes, AwaitedIsRecent
  <2>7. StampsIncrease'
    BY <1>2, <2>1, <2>3, <2>6 DEF StampsIncrease, Before
  <2> QED BY <2>1, <2>4, <2>5, <2>7 DEF ClientInv, AttemptsSupersede, Discarded
<1> QED BY <1>4, <1>5

\* The server takes a request up.  The one awaited is the newest of all it has seen,
\* and once it is accepted with none before it still under way, so are the next.
LEMMA ServeStep ==
  ASSUME ClientInv, Serve \/ ServeAbandoned PROVE ClientInv'
<1>1. ClientTypes /\ AwaitedIsRecent /\ StampsIncrease
  BY DEF ClientInv
<1>2. /\ offset \in Int /\ -Skew <= offset /\ offset <= Skew /\ Old = Skew + 1 /\ Skew \in Nat
      /\ ReadTimeout \in Nat /\ ReadTimeout - offset <= Skew
  BY <1>1, ClientNumbers DEF ClientTypes
<1>3. \A r \in Stamped : r.age \in Int
  BY DEF Stamped
<1>4. CASE Serve
  <2>1. /\ awaiting /\ current # NoReport /\ answer = "none"
        /\ boundary' = IF answer' = "accepted" THEN current ELSE boundary
        /\ disturbed' = (disturbed /\ (answer' = "accepted" => abandoned # {}))
        /\ UNCHANGED <<offset, awaiting, wait, current, abandoned>>
        /\ answer' = Outcome(current) \/ answer' \in {"unauthorized"} \cup FastCodes
    BY <1>4 DEF Serve, runner
  <2>2. current.age \in Int /\ current.age >= -offset /\ current.age <= Skew
    BY <1>1, <1>2, <1>3, <2>1 DEF AwaitedIsRecent, ClientTypes
  <2>3. ClientTypes'
    BY <1>1, <2>1 DEF ClientTypes
  <2>4. AwaitedIsRecent'
    BY <1>1, <2>1 DEF AwaitedIsRecent
  <2>5. ~disturbed' => ~disturbed \/ (answer' = "accepted" /\ abandoned = {})
    BY <2>1
  <2>6. StampsIncrease'
    <3>1. CASE ~disturbed
      BY <1>1, <1>2, <1>3, <2>1, <2>2, <3>1 DEF StampsIncrease, Before, ClientTypes, FastCodes
    <3>2. CASE answer' = "accepted" /\ abandoned = {}
      BY <1>2, <2>1, <2>2, <3>2 DEF StampsIncrease, Before
    <3>3. CASE disturbed'
      BY <3>3 DEF StampsIncrease
    <3> QED BY <2>5, <3>1, <3>2, <3>3
  <2>7. AttemptsSupersede'
    <3>1. CASE ~disturbed
      <4>1. current.age < boundary.age
        BY <1>1, <2>1, <3>1 DEF StampsIncrease
      <4>2. ~(current.age > Skew) /\ current.age <= Skew /\ ~(current.age > boundary.age)
            /\ current # boundary
        BY <1>1, <1>2, <1>3, <2>2, <4>1 DEF ClientTypes
      <4>3. Outcome(current) = "accepted"
        BY <4>1, <4>2 DEF Outcome
      <4> QED BY <2>1, <4>3 DEF AttemptsSupersede, Discarded, FastCodes
    <3> QED BY <2>5, <3>1 DEF AttemptsSupersede, Discarded
  <2> QED BY <2>3, <2>4, <2>6, <2>7 DEF ClientInv
<1>5. CASE ServeAbandoned
  <2>1. /\ abandoned' \subseteq abandoned /\ boundary' \in abandoned \cup {boundary}
        /\ UNCHANGED <<offset, awaiting, wait, current, answer, disturbed>>
    BY <1>5 DEF ServeAbandoned, runner
  <2>2. ClientTypes' /\ AwaitedIsRecent'
    BY <1>1, <2>1 DEF ClientTypes, AwaitedIsRecent
  <2>3. StampsIncrease'
    <3> SUFFICES ASSUME ~disturbed PROVE StampsIncrease'
      BY <2>1 DEF StampsIncrease
    <3>1. ASSUME NEW r \in abandoned
          PROVE  r.age \in Int /\ Before(r) /\ (current # NoReport => r.age > current.age)
      BY <1>1, <1>3 DEF StampsIncrease, ClientTypes
    <3>2. current.age \in Int
      BY <1>1, <1>3 DEF ClientTypes
    <3>3. CASE boundary' = boundary
      BY <1>1, <2>1, <3>1, <3>3 DEF StampsIncrease, Before
    <3>4. CASE boundary' \in abandoned
      BY <2>1, <3>1, <3>2, <3>4 DEF StampsIncrease, Before
    <3> QED BY <2>1, <3>3, <3>4
  <2> QED BY <2>1, <2>2, <2>3 DEF ClientInv, AttemptsSupersede
<1> QED BY <1>4, <1>5

\* The network loses a request, the clock is stepped, or the process is restarted.
LEMMA TroubleStep ==
  ASSUME ClientInv, LoseCurrent \/ LoseAbandoned \/ StepClock \/ Restart \/ CalmDown
  PROVE  ClientInv'
<1>1. ClientTypes /\ AwaitedIsRecent /\ StampsIncrease
  BY DEF ClientInv
<1>2. /\ \A o \in Offsets : o \in Int
      /\ \A r \in Stamped : r.age \in Int
  BY ClientNumbers DEF Stamped
<1>3. CASE LoseCurrent \/ LoseAbandoned \/ CalmDown
  <2>1. /\ current' \in {current, NoReport} /\ abandoned' \subseteq abandoned
        /\ UNCHANGED <<offset, awaiting, wait, answer, boundary, disturbed>>
    BY <1>3 DEF LoseCurrent, LoseAbandoned, CalmDown, runner, network
  <2> QED BY <1>1, <2>1, NoReportType
          DEF ClientInv, ClientTypes, AwaitedIsRecent, StampsIncrease, Before, AttemptsSupersede
<1>4. CASE StepClock
  <2>1. /\ ~awaiting /\ offset' \in Offsets /\ offset' # offset
        /\ disturbed' = (disturbed \/ offset' < offset)
        /\ UNCHANGED <<awaiting, wait, current, abandoned, answer, boundary>>
    BY <1>4 DEF StepClock, runner, network
  <2>2. offset \in Int /\ offset' \in Int /\ current = NoReport /\ answer = "none"
    BY <1>1, <1>2, <2>1 DEF ClientTypes, AwaitedIsRecent
  <2>3. ClientTypes' /\ AwaitedIsRecent'
    BY <1>1, <2>1, <2>2 DEF ClientTypes, AwaitedIsRecent
  <2>4. ASSUME ~disturbed', NEW r \in abandoned \cup {boundary} PROVE r.age > -(offset')
    <3>1. r.age \in Int /\ r.age >= -offset
      BY <1>1, <1>2, <2>1, <2>4 DEF StampsIncrease, Before, ClientTypes
    <3>2. ~(offset' < offset)
      BY <2>1, <2>4, Zenon
    <3>3. offset' > offset
      BY <2>1, <2>2, <3>2
    <3> QED BY <2>2, <3>1, <3>3
  <2>5. \A r \in abandoned \cup {boundary} : r.age \in Int
    BY <1>1, <1>2 DEF ClientTypes
  <2>6. StampsIncrease'
    BY <2>1, <2>2, <2>4, <2>5 DEF StampsIncrease, Before
  <2> QED BY <2>1, <2>2, <2>3, <2>6 DEF ClientInv, AttemptsSupersede, Discarded
<1>5. CASE Restart
  <2>1. /\ awaiting' = FALSE /\ wait' = 0 /\ current' = NoReport /\ answer' = "none" /\ disturbed' = TRUE
        /\ abandoned' \subseteq abandoned \cup {current} /\ UNCHANGED <<offset, boundary>>
    BY <1>5 DEF Restart
  <2> QED BY <1>1, <2>1, NoReportType
          DEF ClientInv, ClientTypes, AwaitedIsRecent, StampsIncrease, AttemptsSupersede
<1> QED BY <1>3, <1>4, <1>5

\* As long as its clock is not stepped back and its process not restarted, a client's
\* reports never refuse each other, whatever the delays, the jitter and the network
\* (DeviceV2Runner, src/clients/device_client_transport.py).
THEOREM RunnerAttemptsSupersede == ClientSpec => []AttemptsSupersede
<1>1. ClientInit => ClientInv
  <2> SUFFICES ASSUME ClientInit PROVE ClientInv
    OBVIOUS
  <2>1. ClientTypes
    BY NoReportType DEF ClientInit, ClientTypes
  <2>2. offset \in Int /\ -Skew <= offset /\ Old = Skew + 1 /\ Skew \in Nat
    BY <2>1, ClientNumbers DEF ClientTypes
  <2>3. offset <= Skew /\ NoReport.age > -offset
    BY <2>1, <2>2, NoReportType, ClientNumbers DEF ClientTypes
  <2>4. /\ current = NoReport /\ boundary = NoReport /\ abandoned = {} /\ answer = "none"
        /\ awaiting = FALSE
    BY DEF ClientInit
  <2>5. NoReport.age \in Int
    BY NoReportType DEF Stamped
  <2> QED BY <2>1, <2>2, <2>3, <2>4, <2>5
          DEF ClientInv, AwaitedIsRecent, StampsIncrease, Before, AttemptsSupersede, Discarded
<1>2. ClientInv /\ [ClientNext]_clientVars => ClientInv'
  <2> SUFFICES ASSUME ClientInv, [ClientNext]_clientVars PROVE ClientInv'
    OBVIOUS
  <2>1. CASE UNCHANGED clientVars
    BY <2>1 DEF ClientInv, ClientTypes, AwaitedIsRecent, StampsIncrease, Before, AttemptsSupersede,
                clientVars, runner, network
  <2> QED BY <2>1, TickStep, AttemptStep, ServeStep, TroubleStep DEF ClientNext
<1>3. ClientInv => AttemptsSupersede
  BY DEF ClientInv
<1> QED BY <1>1, <1>2, <1>3, PTL DEF ClientSpec
-----------------------------------------------------------------------------
(* The extension domains. *)

DomainPayload == [life : Nat, stale : BOOLEAN]

ExtensionTypes ==
    /\ enabled \subseteq Domains /\ life \in Nat
    /\ mainPc \in 1..Sending
    /\ domainShown \in [Domains -> DomainPayload]
    /\ worker \in [Domains -> {"due", "storing", "written", "waiting"}]

\* start() has gone past the domains that are switched off and those this process
\* has collected; a collection it waits for is of the domain it is at.
StartHolds ==
    /\ \A i \in 1..mainPc - 1 :
          TaskOrder[i] \in enabled => domainShown[TaskOrder[i]].life = life
    /\ \A d \in Domains : worker[d] \in {"storing", "written"} =>
          /\ d \in enabled /\ domainShown[d].life = life
          /\ mainPc # Sending => TaskOrder[mainPc] = d

ExtensionInv == ExtensionTypes /\ StartHolds /\ FirstPayloadComplete

\* The positions of start().
LEMMA TaskPositions ==
  /\ Len(TaskOrder) \in Nat /\ Sending = Len(TaskOrder) + 1
  /\ DOMAIN TaskOrder = 1..Len(TaskOrder)
  /\ \A i \in 1..Len(TaskOrder) : TaskOrder[i] \in Domains
  /\ \A d \in Domains : \E i \in 1..Len(TaskOrder) : TaskOrder[i] = d
<1>1. Len(TaskOrder) \in Nat /\ DOMAIN TaskOrder = 1..Len(TaskOrder)
  BY ExtensionAssumption
<1> QED BY <1>1 DEF Sending, Domains, Range

\* What a collection yields is of this process.
LEMMA OutcomesType ==
  ASSUME NEW d, life \in Nat, NEW p \in Outcomes(d) PROVE p \in DomainPayload /\ p.life = life
<1>1. ASSUME NEW stale \in BOOLEAN
      PROVE  Payload(stale) \in DomainPayload /\ Payload(stale).life = life
  BY DEF Payload, DomainPayload
<1>2. p = Payload(TRUE) \/ (\E a : p = CollectDocker(a))
      \/ (\E f, e : p = ReadHermesSnapshot(f, e)) \/ p = Payload(FALSE)
  <2> DEFINE docker == {CollectDocker(a) : a \in {"list", "too_long", "none"}}
             hermes == {ReadHermesSnapshot(f, e) :
                          f \in {"missing", "unreadable", "invalid", "fresh", "stale"}, e \in BOOLEAN}
  <2>1. p \in {Payload(TRUE)} \cup docker \/ p \in {Payload(TRUE)} \cup hermes
        \/ p \in {Payload(TRUE)} \cup {Payload(FALSE)}
    <3>1. d = "docker" => Outcomes(d) = {Payload(TRUE)} \cup docker
      BY DEF Outcomes
    <3>2. d = "hermes" => Outcomes(d) = {Payload(TRUE)} \cup hermes
      BY DEF Outcomes
    <3>3. d # "docker" /\ d # "hermes" => Outcomes(d) = {Payload(TRUE)} \cup {Payload(FALSE)}
      BY DEF Outcomes, Payload
    <3> HIDE DEF docker, hermes
    <3> QED BY <3>1, <3>2, <3>3, Zenon
  <2>2. p \in docker => \E a : p = CollectDocker(a)
    OBVIOUS
  <2>3. p \in hermes => \E f, e : p = ReadHermesSnapshot(f, e)
    OBVIOUS
  <2> HIDE DEF docker, hermes
  <2> QED BY <2>1, <2>2, <2>3, Zenon
<1>3. ASSUME NEW a, p = CollectDocker(a) PROVE p \in DomainPayload /\ p.life = life
  <2> DEFINE stale == a # "list"
  <2>1. stale \in BOOLEAN /\ p = Payload(stale)
    BY <1>3 DEF CollectDocker
  <2> HIDE DEF stale
  <2> QED BY <1>1, <2>1
<1>4. ASSUME NEW f, NEW e, p = ReadHermesSnapshot(f, e) PROVE p \in DomainPayload /\ p.life = life
  <2> DEFINE stale == ~(f = "fresh" \/ (f = "missing" /\ ~e))
  <2>1. stale \in BOOLEAN /\ p = Payload(stale)
    BY <1>4 DEF ReadHermesSnapshot
  <2> HIDE DEF stale
  <2> QED BY <1>1, <2>1
<1> QED BY <1>1, <1>2, <1>3, <1>4

\* A collection keeps the others' payloads.
LEMMA CollectStep == ASSUME ExtensionInv, NEW d \in Domains, CollectOnce(d) PROVE ExtensionInv'
<1>1. PICK p \in Outcomes(d) : domainShown' = [domainShown EXCEPT ![d] = p]
  BY DEF CollectOnce
<1>2. /\ worker' = [worker EXCEPT ![d] = "storing"]
      /\ UNCHANGED <<enabled, life, mainPc, sent>> /\ MayCollect(d)
  BY DEF CollectOnce
<1>3. p \in DomainPayload /\ p.life = life
  BY OutcomesType DEF ExtensionInv, ExtensionTypes
<1>4. ExtensionTypes'
  BY <1>1, <1>2, <1>3 DEF ExtensionInv, ExtensionTypes
<1>5. \A e \in Domains : domainShown[e].life = life => domainShown'[e].life = life
  BY <1>1, <1>3 DEF ExtensionInv, ExtensionTypes
<1>6. \A i \in 1..mainPc - 1 : TaskOrder[i] \in Domains
  BY TaskPositions DEF ExtensionInv, ExtensionTypes
<1>7. \A e \in Domains : worker'[e] \in {"storing", "written"} =>
         e \in enabled /\ domainShown'[e].life = life /\ (mainPc # Sending => TaskOrder[mainPc] = e)
  BY <1>1, <1>2, <1>3, <1>5 DEF ExtensionInv, ExtensionTypes, StartHolds, MayCollect
<1>8. StartHolds'
  BY <1>2, <1>5, <1>6, <1>7 DEF ExtensionInv, StartHolds, Sending
<1>9. FirstPayloadComplete'
  BY <1>2 DEF ExtensionInv, FirstPayloadComplete
<1> QED BY <1>4, <1>8, <1>9 DEF ExtensionInv

\* A collection ends, with its status file written or not.
LEMMA CollectedStep ==
  ASSUME ExtensionInv, NEW d \in Domains, ReplaceFile(d) \/ WriteError(d) PROVE ExtensionInv'
<1>1. /\ worker[d] \in {"storing", "written"} /\ worker' = [worker EXCEPT ![d] = "waiting"]
      /\ mainPc' = IF mainPc = Sending THEN mainPc ELSE mainPc + 1
      /\ UNCHANGED <<enabled, life, domainShown, sent>>
  BY DEF ReplaceFile, WriteError, Collected
<1>2. domainShown[d].life = life /\ (mainPc # Sending => TaskOrder[mainPc] = d)
  BY <1>1 DEF ExtensionInv, StartHolds
<1>3. mainPc \in 1..Sending /\ Sending \in Nat /\ mainPc' \in 1..Sending
  BY <1>1, TaskPositions DEF ExtensionInv, ExtensionTypes
<1>4. ExtensionTypes'
  BY <1>1, <1>3 DEF ExtensionInv, ExtensionTypes, Sending
<1>5. \A e \in Domains \ {d} : mainPc # Sending => worker'[e] \notin {"storing", "written"}
  BY <1>1, <1>2 DEF ExtensionInv, ExtensionTypes, StartHolds
<1>6. \A e \in Domains : worker'[e] \in {"storing", "written"} =>
         e \in enabled /\ domainShown[e].life = life /\ mainPc = Sending
  BY <1>1, <1>5 DEF ExtensionInv, ExtensionTypes, StartHolds
<1>7. \A i \in 1..mainPc' - 1 : TaskOrder[i] \in enabled => domainShown[TaskOrder[i]].life = life
  BY <1>1, <1>2, <1>3 DEF ExtensionInv, StartHolds
<1>8. StartHolds'
  BY <1>1, <1>6, <1>7 DEF StartHolds, Sending
<1> QED BY <1>1, <1>4, <1>8 DEF ExtensionInv, FirstPayloadComplete

\* The steps that collect nothing.
LEMMA ExtensionOthers ==
  ASSUME ExtensionInv,
         \/ SkipDisabled \/ SendUpdate \/ KillCollector
         \/ \E d \in Domains : WriteTemporary(d) \/ IntervalElapses(d)
  PROVE  ExtensionInv'
<1>s. mainPc \in 1..Sending /\ Sending \in Nat /\ life \in Nat
  BY TaskPositions DEF ExtensionInv, ExtensionTypes
<1>1. CASE SkipDisabled
  <2>1. /\ mainPc \in 1..Len(TaskOrder) /\ mainPc' = mainPc + 1 /\ TaskOrder[mainPc] \notin enabled
        /\ UNCHANGED <<enabled, life, domainShown, worker, sent>>
    BY <1>1, TaskPositions DEF SkipDisabled
  <2>2. mainPc # Sending /\ mainPc' \in 1..Sending
    BY <2>1, TaskPositions
  <2>3. \A d \in Domains : worker[d] \notin {"storing", "written"}
    BY <2>1, <2>2 DEF ExtensionInv, StartHolds
  <2>4. \A i \in 1..mainPc' - 1 : TaskOrder[i] \in enabled => domainShown[TaskOrder[i]].life = life
    BY <1>s, <2>1 DEF ExtensionInv, StartHolds
  <2>5. StartHolds'
    BY <2>1, <2>3, <2>4 DEF StartHolds
  <2>6. ExtensionTypes'
    BY <2>1, <2>2 DEF ExtensionInv, ExtensionTypes, Sending
  <2> QED BY <2>1, <2>5, <2>6 DEF ExtensionInv, FirstPayloadComplete
<1>2. CASE SendUpdate
  <2>1. /\ mainPc = Sending /\ sent' = domainShown
        /\ UNCHANGED <<enabled, life, mainPc, domainShown, worker>>
    BY <1>2 DEF SendUpdate
  <2>2. \A d \in enabled : \E i \in 1..mainPc - 1 : TaskOrder[i] = d
    BY <2>1, TaskPositions DEF ExtensionInv, ExtensionTypes
  <2>3. FirstPayloadComplete'
    BY <2>1, <2>2 DEF ExtensionInv, StartHolds, FirstPayloadComplete
  <2> QED BY <2>1, <2>3 DEF ExtensionInv, ExtensionTypes, StartHolds, Sending
<1>3. CASE KillCollector
  <2>1. /\ life' = life + 1 /\ mainPc' = 1 /\ sent' = NotSent /\ UNCHANGED enabled
        /\ domainShown' = [d \in Domains |-> NotReported] /\ worker' = [d \in Domains |-> "due"]
    BY <1>3 DEF KillCollector, FreshProcess
  <2>2. NotReported \in DomainPayload
    BY DEF NotReported, DomainPayload
  <2>3. ExtensionTypes'
    BY <1>s, <2>1, <2>2, TaskPositions DEF ExtensionInv, ExtensionTypes, Sending
  <2>4. StartHolds' /\ FirstPayloadComplete'
    BY <2>1 DEF StartHolds, FirstPayloadComplete
  <2> QED BY <2>3, <2>4 DEF ExtensionInv
<1>4. ASSUME NEW d \in Domains, WriteTemporary(d) \/ IntervalElapses(d) PROVE ExtensionInv'
  <2>1. /\ \/ worker[d] = "storing" /\ worker' = [worker EXCEPT ![d] = "written"]
           \/ worker' = [worker EXCEPT ![d] = "due"]
        /\ UNCHANGED <<enabled, life, mainPc, domainShown, sent>>
    BY <1>4 DEF WriteTemporary, IntervalElapses
  <2>2. ExtensionTypes'
    BY <2>1 DEF ExtensionInv, ExtensionTypes
  <2>3. \A e \in Domains : worker'[e] \in {"storing", "written"} => worker[e] \in {"storing", "written"}
    BY <2>1 DEF ExtensionInv, ExtensionTypes
  <2>4. StartHolds'
    BY <2>1, <2>3 DEF ExtensionInv, StartHolds
  <2> QED BY <2>1, <2>2, <2>4 DEF ExtensionInv, FirstPayloadComplete
<1> QED BY <1>1, <1>2, <1>3, <1>4

\* However often the process is killed and whatever fails, what it sends first holds a
\* collection of its own of every domain that is switched on
\* (HostExtensionCollector.start, src/clients/host_collector.py).
THEOREM ExtensionsFirstComplete == ExtensionSpec => []FirstPayloadComplete
<1>1. ExtensionInit => ExtensionInv
  <2> SUFFICES ASSUME ExtensionInit PROVE ExtensionInv
    OBVIOUS
  <2>1. NotReported \in DomainPayload
    BY DEF NotReported, DomainPayload
  <2>2. ExtensionTypes
    BY <2>1, TaskPositions DEF ExtensionInit, ExtensionTypes
  <2>3. StartHolds /\ FirstPayloadComplete
    BY DEF ExtensionInit, StartHolds, FirstPayloadComplete
  <2> QED BY <2>2, <2>3 DEF ExtensionInv
<1>2. ExtensionInv /\ [ExtensionNext]_extensionVars => ExtensionInv'
  <2> SUFFICES ASSUME ExtensionInv, [ExtensionNext]_extensionVars PROVE ExtensionInv'
    OBVIOUS
  <2>1. CASE UNCHANGED extensionVars
    BY <2>1 DEF ExtensionInv, ExtensionTypes, StartHolds, FirstPayloadComplete, extensionVars, Sending
  <2> QED BY <2>1, CollectStep, CollectedStep, ExtensionOthers DEF ExtensionNext
<1>3. ExtensionInv => FirstPayloadComplete
  BY DEF ExtensionInv
<1> QED BY <1>1, <1>2, <1>3, PTL DEF ExtensionSpec
=============================================================================
