---------------------------- MODULE SafetyProofs ----------------------------
(***************************************************************************)
(* The two components that keep the pack and the board safe: the battery   *)
(* manager with its CAN frames, and the supervision of the tasks by their  *)
(* heartbeats.                                                             *)
(*                                                                         *)
(* The battery manager is fail-safe for every set of numbers and every set *)
(* of configurations: it implements BmsSafety.  The argument rests on one  *)
(* lemma about the pure part, that bms_protection_evaluate answers NORMAL  *)
(* exactly for a sound sample, and on one invariant, that the latch says   *)
(* whether the limits in force are valid.                                  *)
(*                                                                         *)
(* A NORMAL a receiver of its frames holds is founded, for every set of    *)
(* numbers, samples and limits, every width of the integer above that of   *)
(* the wire, and whatever other nodes send.  The arithmetic is one lemma:  *)
(* rounding to whole units never leaves an interval whose ends are whole   *)
(* units, and inside the range of the wire nothing is clamped.             *)
(*                                                                         *)
(* What health_flags is worth is proved for every period, priority, job    *)
(* length and number of split heartbeats.  The first invariant follows the *)
(* copies of the flags that tasks hold, the second the ticks that each     *)
(* task still needs for its next heartbeat.                                *)
(***************************************************************************)
EXTENDS BmsCan, HealthMonitor, TLAPS

(* A sample is made of readings, whatever the transactions returned. *)
LEMMA AcquiredReading ==
  ASSUME NEW a \in Acquired
  PROVE  a.reading \in Reading /\ a.ok \in BOOLEAN
         /\ (a.reading.status = "VALID" => a.ok)
<1>1. CASE a = [reading |-> NotAvailable, ok |-> FALSE]
  BY <1>1, NumberAssumption DEF NotAvailable, Zero, Reading, Float, Validity
<1>2. ASSUME NEW ok \in BOOLEAN,
             NEW produced \in Reading,
             a = [reading |-> DeviceRead(ok, produced),
                  ok |-> ok /\ produced.status = "VALID"]
      PROVE  /\ a.reading \in Reading /\ a.ok \in BOOLEAN
             /\ a.reading.status = "VALID" => a.ok
  BY <1>2 DEF DeviceRead, Reading, Validity
<1>3. QED
  BY <1>1, <1>2 DEF Acquired

(* What bms_protection_evaluate and bms_state_update may answer. *)
LEMMA EvaluateType ==
  ASSUME NEW m, NEW l
  PROVE  Evaluate(m, l) \in Protection
  BY DEF Evaluate, Protection

(* Whatever the protections say, the fault named is one of the             *)
(* enumeration.                                                            *)
LEMMA FaultOfType ==
  ASSUME NEW p
  PROVE  FaultOf(p) \in Fault
  BY DEF FaultOf, Fault

-----------------------------------------------------------------------------
(* The zeroed object is of the type. *)
LEMMA TypeAtStart == Init => TypeOK
<1> SUFFICES ASSUME Init PROVE TypeOK
  OBVIOUS
<1>1. Zero \in Float
  BY NumberAssumption DEF Zero, Float
<1>2. measurements \in [Channel -> Reading]
  BY <1>1 DEF Init, Reading, Validity
<1>3. limits \in Limits
  BY <1>1 DEF Init, Limits
<1>4. QED
  BY <1>2, <1>3 DEF Init, TypeOK, Protection, State, Fault

(* A step of the manager keeps its fields in their enumerations. *)
LEMMA TypeIsInductive == TypeOK /\ [Next]_vars => TypeOK'
<1> SUFFICES ASSUME TypeOK, [Next]_vars PROVE TypeOK'
  OBVIOUS
<1>1. ASSUME NEW l \in LimitSets, ManagerInit(l) PROVE TypeOK'
  <2>1. NotAvailable \in Reading
    BY NumberAssumption DEF NotAvailable, Zero, Float, Reading, Validity
  <2>2. LimitsValid(l) \in BOOLEAN
    BY DEF LimitsValid
  <2>3. QED
    BY <1>1, <2>1, <2>2, LimitsAssumption DEF ManagerInit, TypeOK, Protection, State, Fault
<1>2. ASSUME NEW sample \in [Channel -> Acquired], ManagerUpdate(sample) PROVE TypeOK'
  <2>1. \A ch \in Channel : sample[ch] \in Acquired
    OBVIOUS
  <2>2. measurements' \in [Channel -> Reading]
    BY <1>2, <2>1, AcquiredReading DEF ManagerUpdate
  <2>3. protection' \in Protection /\ state' \in State /\ fault' \in Fault
    BY <1>2, EvaluateType, FaultOfType
    DEF ManagerUpdate, StateUpdate, Protection, State, Fault
  <2>4. answered' \subseteq Channel
    BY <1>2 DEF ManagerUpdate
  <2>5. QED
    BY <1>2, <2>2, <2>3, <2>4 DEF ManagerUpdate, TypeOK
<1>3. CASE UNCHANGED vars
  BY <1>3 DEF vars, TypeOK
<1>4. QED
  BY <1>1, <1>2, <1>3 DEF Next

(* THEOREM TypeCorrect: the manager's fields stay in their enumerations;   *)
(* in particular no update makes a protection result without a fault.      *)
THEOREM TypeCorrect == Spec => []TypeOK
  BY TypeAtStart, TypeIsInductive, PTL DEF Spec

-----------------------------------------------------------------------------
(* LEMMA EvaluateIsSound: the ordered tests of bms_protection_evaluate     *)
(* answer NORMAL exactly when every reading is valid and inside the closed *)
(* intervals, current by magnitude.                                        *)
LEMMA EvaluateIsSound ==
  ASSUME NEW m \in [Channel -> Reading], NEW l \in Limits
  PROVE  Evaluate(m, l) = "NORMAL" <=> SoundFor(m, l)
<1> DEFINE V == m["voltage"].value.n
           I == m["current"].value.n
           T == m["temperature"].value.n
<1>1. V \in Int /\ I \in Int /\ T \in Int
  <2>1. \A ch \in Channel : m[ch].value.n \in Int
    BY NumberAssumption DEF Reading, Float
  <2>2. QED
    BY <2>1 DEF Channel
<1>2. /\ l.min_voltage.n \in Int /\ l.max_voltage.n \in Int
      /\ l.max_current.n \in Int
      /\ l.min_temperature.n \in Int /\ l.max_temperature.n \in Int
  BY NumberAssumption DEF Limits, Float
<1>3. Magnitude(I) > l.max_current.n
        <=> ~InRange(I, -l.max_current.n, l.max_current.n)
  BY <1>1, <1>2 DEF Magnitude, InRange
<1>4. CASE ~MeasurementsValid(m)
  BY <1>4 DEF Evaluate, SoundFor
<1>5. CASE MeasurementsValid(m)
  <2>1. Evaluate(m, l) = "NORMAL"
          <=> /\ ~(V > l.max_voltage.n) /\ ~(V < l.min_voltage.n)
              /\ ~(Magnitude(I) > l.max_current.n)
              /\ ~(T > l.max_temperature.n) /\ ~(T < l.min_temperature.n)
    BY <1>5 DEF Evaluate
  <2>2. QED
    BY <1>1, <1>2, <1>3, <1>5, <2>1 DEF SoundFor, InRange
<1>6. QED
  BY <1>4, <1>5

(* The latch says whether the limits in force are valid; before the first  *)
(* initialisation nothing has happened yet.                                *)
LatchInv == IF configured THEN latched <=> ~LimitsValid(limits)
                          ELSE state = "INIT" /\ fault = "NONE" /\ ~latched

(* The latch is set exactly while the limits in force are invalid.         *)
LEMMA LatchInvariant == Spec => []LatchInv
<1>1. Init => LatchInv
  BY DEF Init, LatchInv
<1>2. LatchInv /\ [Next]_vars => LatchInv'
  <2> SUFFICES ASSUME LatchInv, [Next]_vars PROVE LatchInv'
    OBVIOUS
  <2>1. ASSUME NEW l \in LimitSets, ManagerInit(l) PROVE LatchInv'
    BY <2>1 DEF ManagerInit, LatchInv, LimitsValid
  <2>2. ASSUME NEW sample \in [Channel -> Acquired], ManagerUpdate(sample) PROVE LatchInv'
    BY <2>2 DEF ManagerUpdate, LatchInv, LimitsValid
  <2>3. CASE UNCHANGED vars
    BY <2>3 DEF vars, LatchInv, LimitsValid
  <2>4. QED
    BY <2>1, <2>2, <2>3 DEF Next
<1>3. QED
  BY <1>1, <1>2, PTL DEF Spec

(* THEOREM ManagerIsFailSafe: the pipeline implements BmsSafety, so a      *)
(* sequence of initialisations, failed transactions and samples of any     *)
(* length never leaves NORMAL standing for anything but a sound sample     *)
(* under an accepted configuration.                                        *)
THEOREM ManagerIsFailSafe == Spec => ImplementsSafety
<1>1. Init => Safety!Init
  BY DEF Init, Safety!Init
<1>2. TypeOK /\ TypeOK' /\ LatchInv /\ [Next]_vars => [Safety!Next]_(Safety!vars)
  <2> SUFFICES ASSUME TypeOK, TypeOK', LatchInv, [Next]_vars
               PROVE  [Safety!Next]_(Safety!vars)
    OBVIOUS
  <2>1. ASSUME NEW l \in LimitSets, ManagerInit(l) PROVE Safety!Next
    <3>1. CASE LimitsValid(l)
      <4>1. Safety!Configure(TRUE)
        BY <2>1, <3>1 DEF ManagerInit, Safety!Configure, LimitsValid
      <4>2. QED
        BY <4>1 DEF Safety!Next
    <3>2. CASE ~LimitsValid(l)
      <4>1. ~MeasurementsValid(measurements)'
        BY <2>1 DEF ManagerInit, MeasurementsValid, NotAvailable, Channel
      <4>2. ~Sound'
        BY <4>1 DEF Sound, SoundFor
      <4>3. Safety!Configure(FALSE)
        BY <2>1, <3>2, <4>2 DEF ManagerInit, Safety!Configure, LimitsValid
      <4>4. QED
        BY <4>3 DEF Safety!Next
    <3>3. QED
      BY <3>1, <3>2
  <2>2. ASSUME NEW sample \in [Channel -> Acquired], ManagerUpdate(sample)
        PROVE  Safety!Next
    <3>1. Sound' \in BOOLEAN
      BY DEF Sound, SoundFor, MeasurementsValid, InRange
    <3>2. Evaluate(measurements', limits') = "NORMAL" <=> Sound'
      BY EvaluateIsSound DEF TypeOK, Sound
    <3>3. configured /\ configured' /\ limits' = limits
      BY <2>2 DEF ManagerUpdate
    <3>4. state' = IF ~latched /\ Sound' THEN "NORMAL" ELSE "FAULT"
      BY <2>2, <3>2, <3>3 DEF ManagerUpdate, StateUpdate
    <3>5. latched <=> ~LimitsValid(limits)
      BY <3>3 DEF LatchInv
    <3>6. Safety!Sample(Sound')
      <4>1. (state' # "INIT" /\ Sound') = Sound'
        BY <3>1, <3>4
      <4>2. state' = IF configured /\ LimitsValid(limits) /\ Sound'
                     THEN "NORMAL" ELSE "FAULT"
        BY <3>3, <3>4, <3>5
      <4>3. (configured /\ LimitsValid(limits))' = (configured /\ LimitsValid(limits))
        BY <3>3 DEF LimitsValid
      <4>4. QED
        BY <4>1, <4>2, <4>3 DEF Safety!Sample
    <3>7. QED
      BY <3>1, <3>6 DEF Safety!Next
  <2>3. CASE UNCHANGED vars
    BY <2>3 DEF vars, Safety!vars, Sound, SoundFor, MeasurementsValid, InRange, LimitsValid
  <2>4. QED
    BY <2>1, <2>2, <2>3 DEF Next
<1>3. QED
  BY <1>1, <1>2, TypeCorrect, LatchInvariant, PTL DEF Spec, ImplementsSafety, Safety!Spec
-----------------------------------------------------------------------------
(* LEMMA EvaluateNames: whichever range condition is the first to hold,    *)
(* the fault that bms_state_update names for it holds of the sample.       *)
LEMMA EvaluateNames ==
  ASSUME NEW m \in [Channel -> Reading], NEW l \in Limits
  PROVE  LET f == FaultOf(Evaluate(m, l))
         IN  /\ f # "INVALID_CONFIGURATION"
             /\ f = "INVALID_MEASUREMENT" => ~MeasurementsValid(m)
             /\ f \notin {"NONE", "INVALID_MEASUREMENT"} => MeasurementsValid(m)
             /\ f = "OVERVOLTAGE" => m["voltage"].value.n > l.max_voltage.n
             /\ f = "UNDERVOLTAGE" => m["voltage"].value.n < l.min_voltage.n
             /\ f = "OVERCURRENT" => m["current"].value.n \notin
                                         -l.max_current.n .. l.max_current.n
             /\ f = "OVERTEMPERATURE" => m["temperature"].value.n > l.max_temperature.n
             /\ f = "UNDERTEMPERATURE" => m["temperature"].value.n < l.min_temperature.n
<1>1. m["current"].value.n \in Int /\ l.max_current.n \in Int
  BY NumberAssumption DEF Channel, Reading, Float, Limits
<1>2. Magnitude(m["current"].value.n) > l.max_current.n
         => m["current"].value.n \notin -l.max_current.n .. l.max_current.n
  BY <1>1 DEF Magnitude
<1>3. CASE ~MeasurementsValid(m)
  BY <1>3 DEF Evaluate, FaultOf
<1>4. CASE MeasurementsValid(m)
  BY <1>2, <1>4 DEF Evaluate, FaultOf
<1>5. QED
  BY <1>3, <1>4

(* THEOREM FaultIsPresent: the one fault the manager names holds of the    *)
(* stored sample and limits, in every reachable state.                     *)
THEOREM FaultIsPresent == Spec => []NamedFaultIsPresent
<1>1. Init => NamedFaultIsPresent
  BY DEF Init, NamedFaultIsPresent
<1>2. TypeOK' /\ LatchInv /\ NamedFaultIsPresent /\ [Next]_vars => NamedFaultIsPresent'
  <2> SUFFICES ASSUME TypeOK', LatchInv, NamedFaultIsPresent, [Next]_vars
               PROVE  NamedFaultIsPresent'
    OBVIOUS
  <2>1. ASSUME NEW l \in LimitSets, ManagerInit(l) PROVE NamedFaultIsPresent'
    BY <2>1 DEF ManagerInit, NamedFaultIsPresent, LimitsValid
  <2>2. ASSUME NEW sample \in [Channel -> Acquired], ManagerUpdate(sample)
        PROVE  NamedFaultIsPresent'
    <3>1. CASE latched
      BY <2>2, <3>1 DEF ManagerUpdate, LatchInv, NamedFaultIsPresent, LimitsValid
    <3>2. CASE ~latched
      <4>1. /\ ~latched'
            /\ protection' = Evaluate(measurements', limits')
            /\ fault' = FaultOf(protection')
        BY <2>2, <3>2 DEF ManagerUpdate, StateUpdate
      <4>2. measurements' \in [Channel -> Reading] /\ limits' \in Limits
        BY DEF TypeOK
      <4>3. fault' = FaultOf(Evaluate(measurements', limits')) /\ fault' \in Fault
        BY <4>1, FaultOfType
      <4>4. fault' \notin {"NONE", "INVALID_MEASUREMENT", "INVALID_CONFIGURATION"}
               => Present(fault)'
        BY <4>2, <4>3, EvaluateNames DEF Present, Fault
      <4>5. QED
        BY <4>2, <4>3, <4>4, EvaluateNames DEF NamedFaultIsPresent, MeasurementsValid
    <3>3. QED
      BY <3>1, <3>2
  <2>3. CASE UNCHANGED vars
    BY <2>3 DEF vars, NamedFaultIsPresent, MeasurementsValid, LimitsValid, Present
  <2>4. QED
    BY <2>1, <2>2, <2>3 DEF Next
<1>3. QED
  BY <1>1, <1>2, TypeCorrect, LatchInvariant, PTL DEF Spec

(* THEOREM NormalNeedsAnswers: no failed transaction is ever behind a      *)
(* NORMAL state.                                                           *)
THEOREM NormalNeedsAnswers == Spec => []NormalIsAnswered
<1>1. Init => NormalIsAnswered
  BY DEF Init, NormalIsAnswered
<1>2. NormalIsAnswered /\ [Next]_vars => NormalIsAnswered'
  <2> SUFFICES ASSUME NormalIsAnswered, [Next]_vars PROVE NormalIsAnswered'
    OBVIOUS
  <2>1. ASSUME NEW l \in LimitSets, ManagerInit(l) PROVE NormalIsAnswered'
    BY <2>1 DEF ManagerInit, NormalIsAnswered
  <2>2. ASSUME NEW sample \in [Channel -> Acquired], ManagerUpdate(sample), state' = "NORMAL"
        PROVE  answered' = Channel
    <3>1. MeasurementsValid(measurements')
      BY <2>2 DEF ManagerUpdate, StateUpdate, Evaluate
    <3>2. \A ch \in Channel : sample[ch].reading.status = "VALID"
      BY <2>2, <3>1 DEF ManagerUpdate, MeasurementsValid
    <3>3. \A ch \in Channel : sample[ch].ok
      BY <3>2, AcquiredReading
    <3>4. QED
      BY <2>2, <3>3 DEF ManagerUpdate
  <2>3. CASE UNCHANGED vars
    BY <2>3 DEF vars, NormalIsAnswered
  <2>4. QED
    BY <2>1, <2>2, <2>3 DEF Next, NormalIsAnswered
<1>3. QED
  BY <1>1, <1>2, PTL DEF Spec

(* THEOREM ConfigurationFaultIsLatched: no sequence of updates ends a      *)
(* configuration fault.                                                    *)
THEOREM ConfigurationFaultIsLatched == Spec => LatchHolds
<1> DEFINE Step == fault = "INVALID_CONFIGURATION" /\ fault' # fault
                     => LimitsValid(limits') /\ state' = "INIT"
<1>1. LatchInv /\ NamedFaultIsPresent /\ [Next]_vars => [Step]_vars
  <2> SUFFICES ASSUME LatchInv, NamedFaultIsPresent, Next PROVE Step
    OBVIOUS
  <2>1. fault = "INVALID_CONFIGURATION" => latched
    BY DEF LatchInv, NamedFaultIsPresent
  <2>2. ASSUME NEW l \in LimitSets, ManagerInit(l) PROVE Step
    BY <2>2 DEF ManagerInit, LimitsValid
  <2>3. ASSUME NEW sample \in [Channel -> Acquired], ManagerUpdate(sample) PROVE Step
    BY <2>1, <2>3 DEF ManagerUpdate
  <2>4. QED
    BY <2>2, <2>3 DEF Next
<1>2. QED
  BY <1>1, LatchInvariant, FaultIsPresent, PTL DEF Spec, LatchHolds

-----------------------------------------------------------------------------
(* The frames *)

(* round_to_int, seen from the wire: twice the unit it returns lies between*)
(* any two even numbers the argument lies between.                         *)
LEMMA RoundStaysWithin ==
  ASSUME NEW n \in Int, NEW lo \in Int, NEW hi \in Int,
         lo % 2 = 0, hi % 2 = 0, InRange(n, lo, hi)
  PROVE  Round(n) \in Int /\ InRange(2 * Round(n), lo, hi)
<1>1. PICK k \in Int : lo = 2 * k
  BY SMT
<1>2. PICK h \in Int : hi = 2 * h
  BY SMT
<1>3. CASE n >= 0
  <2>1. PICK q \in Int : q = (n + 1) \div 2 /\ 2 * q <= n + 1 /\ n <= 2 * q
    BY <1>3, SMT
  <2>2. QED
    BY <1>1, <1>2, <1>3, <2>1 DEF Round, InRange
<1>4. CASE n < 0
  <2>1. PICK q \in Int : q = (-n + 1) \div 2 /\ 2 * q <= -n + 1 /\ -n <= 2 * q
    BY <1>4, SMT
  <2>2. QED
    BY <1>1, <1>2, <1>4, <2>1 DEF Round, InRange
<1>5. QED
  BY <1>3, <1>4

(* A finite reading between two values of the wire arrives between them.   *)
LEMMA ArrivesWithin ==
  ASSUME NEW ch \in Channel, NEW x \in Float, x.finite,
         NEW lo \in Int, NEW hi \in Int, OnWire(ch, lo), OnWire(ch, hi),
         InRange(x.n, lo, hi), NEW w \in Encoded(ch, x)
  PROVE  InRange(2 * Units(ch, w), lo, hi)
<1> DEFINE r == Round(x.n)
<1>1. x.n \in Int
  BY NumberAssumption DEF Float
<1>2. lo % 2 = 0 /\ hi % 2 = 0
  BY DEF OnWire
<1>3. r \in Int /\ InRange(2 * r, lo, hi)
  BY <1>1, <1>2, RoundStaysWithin
<1> HIDE DEF r
<1>4. InRange(2 * r, Least(ch), Greatest(ch))
  <2>1. Least(ch) \in Int /\ Greatest(ch) \in Int
    BY DEF Least, Greatest
  <2>2. QED
    BY <1>3, <2>1 DEF OnWire, InRange
<1>5. ToInt(x) = {r}
  <2>1. -65534 <= 2 * r /\ 2 * r <= 131070
    BY <1>3, <1>4 DEF Least, Greatest, Channel, InRange
  <2>2. ~(r > IntMax) /\ ~(r < IntMin)
    BY <1>3, <2>1, IntAssumption DEF IntMin
  <2>3. QED
    BY <2>2 DEF ToInt, r
<1>6. CASE ch = "voltage"
  <2>1. 0 <= r /\ r <= 65535
    BY <1>3, <1>4, <1>6 DEF Least, Greatest, InRange
  <2>2. w = r
    BY <1>3, <1>5, <1>6, <2>1 DEF Encoded, Clamp
  <2>3. QED
    BY <1>3, <1>6, <2>2 DEF Units
<1>7. CASE ch = "current"
  <2>1. -32767 <= r /\ r <= 32767
    BY <1>3, <1>4, <1>7 DEF Least, Greatest, InRange
  <2>2. w = r % 65536
    BY <1>3, <1>5, <1>7, <2>1 DEF Encoded, Clamp
  <2>3. Units(ch, w) = r
    <3>1. CASE r >= 0
      <4>1. w = r
        BY <1>3, <2>1, <2>2, <3>1
      <4>2. QED
        BY <1>3, <1>7, <2>1, <4>1 DEF Units
    <3>2. CASE r < 0
      <4>1. w = r + 65536
        BY <1>3, <2>1, <2>2, <3>2
      <4>2. QED
        BY <1>3, <1>7, <2>1, <3>2, <4>1 DEF Units
    <3>3. QED
      BY <1>3, <3>1, <3>2
  <2>4. QED
    BY <1>3, <2>3
<1>8. CASE ch = "temperature"
  <2>1. -1000 <= r /\ r <= 64535
    BY <1>3, <1>4, <1>8 DEF Least, Greatest, InRange
  <2>2. Offset(r) = {r + 1000}
    BY <1>3, <2>1, IntAssumption DEF Offset
  <2>3. w = r + 1000
    BY <1>3, <1>5, <1>8, <2>1, <2>2 DEF Encoded, Clamp
  <2>4. Units(ch, w) = r
    BY <1>3, <1>8, <2>3 DEF Units
  <2>5. QED
    BY <1>3, <2>4
<1>9. QED
  BY <1>6, <1>7, <1>8 DEF Channel

(* The range of the current on the wire is symmetric. *)
LEMMA CurrentIsSymmetric ==
  ASSUME NEW i \in Int, OnWire("current", i)
  PROVE  OnWire("current", -i)
<1>1. i % 2 = 0 /\ -65534 <= i /\ i <= 65534
  BY DEF OnWire, InRange, Least, Greatest
<1>2. PICK k \in Int : i = 2 * k
  BY <1>1, SMT
<1>3. (-i) % 2 = 0
  BY <1>2, SMT
<1>4. QED
  BY <1>1, <1>3 DEF OnWire, InRange, Least, Greatest

-----------------------------------------------------------------------------
(* LEMMA SoundStaysSound: a sample that is sound for limits the wire can   *)
(* express is still sound for them once it is encoded and decoded.         *)
LEMMA SoundStaysSound ==
  ASSUME NEW m \in [Channel -> Reading], NEW l \in Limits, SoundFor(m, l), Expressible(l),
         NEW words, \A ch \in Channel : words[ch] \in Encoded(ch, m[ch].value)
  PROVE  SoundFor(Decoded(words), l)
<1> DEFINE d == Decoded(words)
<1>1. /\ l.min_voltage.n \in Int /\ l.max_voltage.n \in Int /\ l.max_current.n \in Int
      /\ l.min_temperature.n \in Int /\ l.max_temperature.n \in Int
  BY NumberAssumption DEF Limits, Float
<1>2. \A ch \in Channel : m[ch].value \in Float /\ m[ch].value.finite
  BY DEF SoundFor, MeasurementsValid, Reading
<1>3. MeasurementsValid(d)
  BY DEF Decoded, MeasurementsValid
<1>4. \A ch \in Channel : d[ch].value.n = 2 * Units(ch, words[ch])
  BY DEF Decoded
<1>5. InRange(d["voltage"].value.n, l.min_voltage.n, l.max_voltage.n)
  BY <1>1, <1>2, <1>4, ArrivesWithin DEF SoundFor, Expressible, Channel
<1>6. InRange(d["current"].value.n, -l.max_current.n, l.max_current.n)
  <2>1. OnWire("current", l.max_current.n)
    BY DEF Expressible
  <2>2. OnWire("current", -l.max_current.n)
    BY <1>1, <2>1, CurrentIsSymmetric
  <2>3. QED
    BY <1>1, <1>2, <1>4, <2>1, <2>2, ArrivesWithin DEF SoundFor, Expressible, Channel
<1>7. InRange(d["temperature"].value.n, l.min_temperature.n, l.max_temperature.n)
  BY <1>1, <1>2, <1>4, ArrivesWithin DEF SoundFor, Expressible, Channel
<1>8. QED
  BY <1>3, <1>5, <1>6, <1>7 DEF SoundFor

-----------------------------------------------------------------------------
(* What the manager has reported as NORMAL is sound.  A report keeps that  *)
(* on its way: the frame on the bus carries the words and the state of the *)
(* report it was built from, or is one no receiver takes.                  *)
Founded(m, l, st) == /\ m \in [Channel -> Reading]
                     /\ l \in Limits
                     /\ st = "NORMAL" => SoundFor(m, l)

ManagerFounded == TypeOK /\ Founded(measurements, limits, state)

Carries(f, r) == /\ f.state = r.state
                 /\ \A ch \in Channel : f.words[ch] \in Encoded(ch, r.measurements[ch].value)

WireFounded == \A f \in wire :
    \/ f \in OtherFrames
    \/ \E r \in source : Carries(f, r) /\ Founded(r.measurements, r.limits, r.state)

CanInv == ManagerFounded /\ WireFounded /\ NormalIsFounded

(* No step of the sender's manager leaves a NORMAL that its sample and     *)
(* limits do not support.                                                  *)
LEMMA ManagerStaysFounded ==
  ASSUME ManagerFounded, [Next]_vars
  PROVE  ManagerFounded'
<1>1. TypeOK'
  BY TypeIsInductive DEF ManagerFounded
<1>2. measurements' \in [Channel -> Reading] /\ limits' \in Limits
  BY <1>1 DEF TypeOK
<1>3. ASSUME NEW l \in LimitSets, ManagerInit(l) PROVE state' # "NORMAL"
  BY <1>3 DEF ManagerInit
<1>4. ASSUME NEW sample \in [Channel -> Acquired], ManagerUpdate(sample), state' = "NORMAL"
      PROVE  SoundFor(measurements', limits')
  <2>1. Evaluate(measurements', limits) = "NORMAL" /\ limits' = limits
    BY <1>4 DEF ManagerUpdate, StateUpdate
  <2>2. QED
    BY <1>2, <2>1, EvaluateIsSound
<1>5. ASSUME UNCHANGED vars, state' = "NORMAL" PROVE SoundFor(measurements', limits')
  BY <1>5 DEF ManagerFounded, Founded, vars
<1>6. state' = "NORMAL" => SoundFor(measurements', limits')
  BY <1>3, <1>4, <1>5 DEF Next
<1>7. QED
  BY <1>1, <1>2, <1>6 DEF ManagerFounded, Founded

(* Publish encodes the report it leaves behind. *)
LEMMA PublishCarries ==
  ASSUME ManagerFounded, Publish
  PROVE  WireFounded'
<1> DEFINE r == [measurements |-> measurements, limits |-> limits, state |-> state]
<1>1. source' = {r}
  BY DEF Publish
<1>2. ASSUME NEW f \in wire' PROVE Carries(f, r)
  <2>1. PICK voltage \in Encoded("voltage", measurements["voltage"].value),
             current \in Encoded("current", measurements["current"].value),
             temperature \in Encoded("temperature", measurements["temperature"].value) :
          /\ f.state = state
          /\ f.words = [ch \in Channel |-> CASE ch = "voltage" -> voltage
                                              [] ch = "current" -> current
                                              [] OTHER          -> temperature]
    BY <1>2 DEF Publish
  <2>2. \A ch \in Channel : f.words[ch] \in Encoded(ch, measurements[ch].value)
    BY <2>1 DEF Channel
  <2>3. QED
    BY <2>1, <2>2 DEF Carries
<1>3. Founded(r.measurements, r.limits, r.state)
  BY DEF ManagerFounded
<1>4. QED
  BY <1>1, <1>2, <1>3 DEF WireFounded

(* A frame the receiver takes is not another node's, so it carries a       *)
(* founded report, and what is decoded of a NORMAL one is sound.           *)
LEMMA ReceiveIsFounded ==
  ASSUME WireFounded, Receive
  PROVE  NormalIsFounded'
<1>1. PICK f \in wire : /\ FrameIsValid("receiver", f)
                        /\ received' = Decoded(f.words)
                        /\ status' = [state |-> f.state, fault |-> f.fault]
                        /\ believed' = source
  BY DEF Receive
<1>2. f \notin OtherFrames
  BY <1>1, FramesAssumption
  DEF FrameIsValid, StateIsValid, FaultIsValid, State, Fault, OtherCode
<1>3. PICK r \in source : Carries(f, r) /\ Founded(r.measurements, r.limits, r.state)
  BY <1>2 DEF WireFounded
<1>4. ASSUME status'.state = "NORMAL", Expressible(r.limits)
      PROVE  SoundFor(received', r.limits)
  <2>1. SoundFor(r.measurements, r.limits)
    BY <1>1, <1>3, <1>4 DEF Carries, Founded
  <2>2. QED
    BY <1>1, <1>3, <1>4, <2>1, SoundStaysSound DEF Carries, Founded
<1>5. status'.state = r.state
  BY <1>1, <1>3 DEF Carries
<1>6. QED
  BY <1>1, <1>3, <1>4, <1>5 DEF NormalIsFounded

(* What the manager, the frame on the bus and the receiver hold is founded *)
(* throughout.                                                             *)
LEMMA CanInvHolds == CanSpec => []CanInv
<1>1. CanInit => CanInv
  <2> SUFFICES ASSUME CanInit PROVE CanInv
    OBVIOUS
  <2>1. ManagerFounded
    <3>1. TypeOK
      BY TypeAtStart DEF CanInit
    <3>2. QED
      BY <3>1 DEF ManagerFounded, Founded, CanInit, Init, TypeOK
  <2>2. WireFounded /\ NormalIsFounded
    BY DEF CanInit, WireFounded, NormalIsFounded
  <2>3. QED
    BY <2>1, <2>2 DEF CanInv
<1>2. CanInv /\ [CanNext]_canVars => CanInv'
  <2> SUFFICES ASSUME CanInv, [CanNext]_canVars PROVE CanInv'
    OBVIOUS
  <2> USE DEF CanInv
  <2>1. CASE SenderSteps
    <3>1. [Next]_vars
      <4>1. \A sample \in Samples : sample \in [Channel -> Acquired]
        BY SamplesAssumption
      <4>2. QED
        BY <2>1, <4>1 DEF SenderSteps, Next
    <3>2. ManagerFounded'
      BY <3>1, ManagerStaysFounded
    <3>3. UNCHANGED <<wire, source, received, status, believed>>
      BY <2>1 DEF SenderSteps, heardVars
    <3>4. QED
      BY <3>2, <3>3 DEF WireFounded, NormalIsFounded
  <2>2. CASE Publish
    <3>1. ManagerFounded' /\ NormalIsFounded'
      BY <2>2 DEF Publish, senderVars, heardVars, ManagerFounded, TypeOK, NormalIsFounded
    <3>2. QED
      BY <2>2, <3>1, PublishCarries
  <2>3. CASE OtherSends
    <3>1. ManagerFounded' /\ NormalIsFounded'
      BY <2>3 DEF OtherSends, senderVars, heardVars, ManagerFounded, TypeOK, NormalIsFounded
    <3>2. WireFounded'
      BY <2>3 DEF OtherSends, WireFounded
    <3>3. QED
      BY <3>1, <3>2
  <2>4. CASE Receive
    <3>1. ManagerFounded' /\ WireFounded'
      BY <2>4 DEF Receive, senderVars, ManagerFounded, TypeOK, WireFounded
    <3>2. QED
      BY <2>4, <3>1, ReceiveIsFounded
  <2>5. ASSUME NEW n \in Node, NEW id \in Ids, SetBaseId(n, id) PROVE CanInv'
    BY <2>5 DEF SetBaseId, senderVars, heardVars, ManagerFounded, TypeOK, WireFounded, NormalIsFounded
  <2>6. CASE UNCHANGED canVars
    BY <2>6 DEF canVars, senderVars, heardVars, ManagerFounded, TypeOK, WireFounded, NormalIsFounded
  <2>7. QED
    BY <2>1, <2>2, <2>3, <2>4, <2>5, <2>6 DEF CanNext
<1>3. QED
  BY <1>1, <1>2, PTL DEF CanSpec

(* THEOREM ReceivedNormalIsFounded: whatever is rounded, saturated, lost,  *)
(* misaddressed or sent by others, a NORMAL a receiver holds was a         *)
(* manager's, and the decoded values are themselves sound for the limits   *)
(* that manager judged by, as far as the wire can express those limits.    *)
THEOREM ReceivedNormalIsFounded == CanSpec => []NormalIsFounded
<1>1. CanInv => NormalIsFounded
  BY DEF CanInv
<1>2. QED
  BY <1>1, CanInvHolds, PTL

-----------------------------------------------------------------------------
(* round_to_int is off by at most half a unit, on both sides of zero.      *)
LEMMA RoundIsNearest ==
  ASSUME NEW n \in Int
  PROVE  Round(n) \in Int /\ 2 * Round(n) - n \in -1 .. 1
<1>1. CASE n >= 0
  <2>1. PICK q \in Int : q = (n + 1) \div 2 /\ 2 * q <= n + 1 /\ n <= 2 * q
    BY <1>1, SMT
  <2>2. QED
    BY <1>1, <2>1 DEF Round
<1>2. CASE n < 0
  <2>1. PICK q \in Int : q = (-n + 1) \div 2 /\ 2 * q <= -n + 1 /\ -n <= 2 * q
    BY <1>2, SMT
  <2>2. QED
    BY <1>2, <2>1 DEF Round
<1>3. QED
  BY <1>1, <1>2

(* Saturation on the wire and in the unit of the reading agree: clamping a *)
(* rounded value and rounding a clamped one are off by the same half unit. *)
LEMMA ClampIsNearest ==
  ASSUME NEW n \in Int, NEW r \in Int, 2 * r - n \in -1 .. 1,
         NEW lo \in Int, NEW hi \in Int, lo <= hi
  PROVE  /\ Clamp(r, lo, hi) \in Int /\ lo <= Clamp(r, lo, hi) /\ Clamp(r, lo, hi) <= hi
         /\ 2 * Clamp(r, lo, hi) - Clamp(n, 2 * lo, 2 * hi) \in -1 .. 1
BY DEF Clamp

(* A sixteen-bit two's complement word gives back the current it was given.*)
LEMMA CurrentComesBack ==
  ASSUME NEW i \in Int, -32767 <= i, i <= 32767
  PROVE  Units("current", i % 65536) = i
<1>1. CASE i >= 0
  <2>1. i % 65536 = i
    BY <1>1
  <2>2. QED
    BY <1>1, <2>1 DEF Units
<1>2. CASE i < 0
  <2>1. i % 65536 = i + 65536
    BY <1>2
  <2>2. QED
    BY <1>2, <2>1 DEF Units
<1>3. QED
  BY <1>1, <1>2

(* A reading the conversions are defined for is encoded as the wire's      *)
(* nearest value.                                                          *)
LEMMA EncodedIsNearest ==
  ASSUME NEW ch \in Channel, NEW x \in Float, x.finite, Convertible(x.n),
         NEW w \in Encoded(ch, x)
  PROVE  2 * Units(ch, w) - Clamp(x.n, Least(ch), Greatest(ch)) \in -1 .. 1
<1> DEFINE r == Round(x.n)
           n == x.n
<1>1. n \in Int
  BY NumberAssumption DEF Float
<1>2. r \in Int /\ 2 * r - n \in -1 .. 1
  BY <1>1, RoundIsNearest
<1>3. IntMax \in Nat /\ IntMax > 66535
  BY IntAssumption
<1>4. -2 * IntMax <= n /\ n <= 2 * (IntMax - 1000)
  BY DEF Convertible
<1> HIDE DEF r, n
<1>5. -IntMax <= r /\ r + 1000 <= IntMax
  BY <1>1, <1>2, <1>3, <1>4
<1>6. ~(r > IntMax) /\ ~(r < IntMin)
  BY <1>2, <1>3, <1>5 DEF IntMin
<1>7. ToInt(x) = {r}
  BY <1>6 DEF ToInt, r
<1>8. Offset(r) = {r + 1000}
  BY <1>5 DEF Offset
<1>9. CASE ch = "voltage"
  <2>1. w = Clamp(r, 0, 65535)
    BY <1>7, <1>9 DEF Encoded
  <2>2. 2 * Clamp(r, 0, 65535) - Clamp(n, 0, 131070) \in -1 .. 1
    <3>1. 2 * 0 = 0 /\ 2 * 65535 = 131070 /\ 0 \in Int /\ 65535 \in Int /\ 0 <= 65535
      OBVIOUS
    <3>2. 2 * Clamp(r, 0, 65535) - Clamp(n, 2 * 0, 2 * 65535) \in -1 .. 1
      BY <1>1, <1>2, <3>1, ClampIsNearest, SMTT(30)
    <3>3. QED
      BY <3>1, <3>2
  <2>3. Units(ch, w) = w /\ Least(ch) = 0 /\ Greatest(ch) = 131070
    BY <1>9 DEF Units, Least, Greatest
  <2>4. QED
    BY <2>1, <2>2, <2>3 DEF n
<1>10. CASE ch = "current"
  <2> DEFINE i == Clamp(r, -32767, 32767)
  <2>1. w = i % 65536
    BY <1>7, <1>10 DEF Encoded
  <2>2. /\ i \in Int /\ -32767 <= i /\ i <= 32767
        /\ 2 * i - Clamp(n, -65534, 65534) \in -1 .. 1
    <3> DEFINE lo == -32767
               hi == 32767
    <3>1. lo \in Int /\ hi \in Int /\ lo <= hi /\ 2 * lo = -65534 /\ 2 * hi = 65534
      OBVIOUS
    <3> HIDE DEF lo, hi
    <3>2. /\ Clamp(r, lo, hi) \in Int /\ lo <= Clamp(r, lo, hi) /\ Clamp(r, lo, hi) <= hi
          /\ 2 * Clamp(r, lo, hi) - Clamp(n, 2 * lo, 2 * hi) \in -1 .. 1
      <4>1. r \in Int /\ n \in Int /\ lo \in Int /\ hi \in Int /\ lo <= hi
        BY <1>1, <1>2, <3>1
      <4>2. 2 * r - n \in -1 .. 1
        BY <1>2
      <4>3. QED
        BY <4>1, <4>2, ClampIsNearest, Zenon
    <3>3. i = Clamp(r, lo, hi)
      BY DEF lo, hi
    <3>4. /\ i \in Int /\ lo <= i /\ i <= hi
          /\ 2 * i - Clamp(n, -65534, 65534) \in -1 .. 1
      BY <3>1, <3>2, <3>3
    <3>5. QED
      BY <3>4 DEF lo, hi
  <2> HIDE DEF i
  <2>3. Units(ch, w) = i
    BY <1>10, <2>1, <2>2, CurrentComesBack
  <2>4. Least(ch) = -65534 /\ Greatest(ch) = 65534
    BY <1>10 DEF Least, Greatest
  <2>5. QED
    BY <2>2, <2>3, <2>4 DEF n
<1>11. CASE ch = "temperature"
  <2> DEFINE c == Clamp(r + 1000, 0, 65535)
             d == Clamp(n + 2000, 0, 131070)
  <2>1. w = c
    BY <1>7, <1>8, <1>11 DEF Encoded
  <2>2. 2 * (r + 1000) - (n + 2000) \in -1 .. 1
    BY <1>1, <1>2
  <2>3. 2 * c - d \in -1 .. 1 /\ c \in Int
    <3> DEFINE s  == r + 1000
               t  == n + 2000
               lo == 0
               hi == 65535
    <3>1. s \in Int /\ t \in Int /\ 2 * s - t \in -1 .. 1
      BY <1>1, <1>2, <2>2
    <3>2. lo \in Int /\ hi \in Int /\ lo <= hi /\ 2 * lo = 0 /\ 2 * hi = 131070
      OBVIOUS
    <3>3. c = Clamp(s, lo, hi) /\ d = Clamp(t, 0, 131070)
      OBVIOUS
    <3> HIDE DEF s, t, lo, hi
    <3>4. /\ Clamp(s, lo, hi) \in Int
          /\ 2 * Clamp(s, lo, hi) - Clamp(t, 2 * lo, 2 * hi) \in -1 .. 1
      <4>1. lo \in Int /\ hi \in Int /\ lo <= hi
        BY <3>2
      <4>2. QED
        BY <3>1, <4>1, ClampIsNearest, Zenon
    <3> HIDE DEF c, d
    <3>5. QED
      BY <3>2, <3>3, <3>4
  <2>4. d = Clamp(n, -2000, 129070) + 2000 /\ d \in Int
    BY <1>1 DEF Clamp
  <2>5. Clamp(n, -2000, 129070) \in Int
    BY <1>1 DEF Clamp
  <2> HIDE DEF c, d
  <2>6. Units(ch, w) = c - 1000 /\ Least(ch) = -2000 /\ Greatest(ch) = 129070
    BY <1>11, <2>1 DEF Units, Least, Greatest
  <2>7. 2 * (c - 1000) - Clamp(n, -2000, 129070) \in -1 .. 1
    BY <2>3, <2>4, <2>5
  <2>8. QED
    BY <2>6, <2>7 DEF n
<1>12. QED
  BY <1>9, <1>10, <1>11 DEF Channel

(* There is one report behind a frame. *)
OneSource == \A r, s \in source : r = s

(* Decoding a frame yields the representable values nearest to those that  *)
(* were published.                                                         *)
LEMMA ReceiveIsNearest ==
  ASSUME WireFounded, OneSource, Receive
  PROVE  ArrivesNearest'
<1>1. PICK f \in wire : /\ FrameIsValid("receiver", f)
                        /\ received' = Decoded(f.words)
                        /\ believed' = source
  BY DEF Receive
<1>2. f \notin OtherFrames
  BY <1>1, FramesAssumption
  DEF FrameIsValid, StateIsValid, FaultIsValid, State, Fault, OtherCode
<1>3. PICK r \in source : Carries(f, r) /\ Founded(r.measurements, r.limits, r.state)
  BY <1>2 DEF WireFounded
<1>4. ASSUME NEW ch \in Channel, r.measurements[ch].value.finite,
             Convertible(r.measurements[ch].value.n)
      PROVE  received'[ch].value.n
               - Clamp(r.measurements[ch].value.n, Least(ch), Greatest(ch)) \in -1 .. 1
  <2>1. r.measurements[ch].value \in Float
    BY <1>3 DEF Founded, Reading
  <2>2. f.words[ch] \in Encoded(ch, r.measurements[ch].value)
    BY <1>3 DEF Carries
  <2>3. received'[ch].value.n = 2 * Units(ch, f.words[ch])
    BY <1>1 DEF Decoded
  <2>4. QED
    BY <1>4, <2>1, <2>2, <2>3, EncodedIsNearest
<1>5. \A report \in believed' : report = r
  BY <1>1, <1>3 DEF OneSource
<1>6. QED
  BY <1>4, <1>5 DEF ArrivesNearest

(* THEOREM ReadingsArriveNearest: for every sample, width of the integer   *)
(* and traffic, what a receiver decodes of a finite reading within the     *)
(* conversions' reach is the nearest value of the wire, the end of the     *)
(* channel's range for a reading beyond it (round_to_int, clamp_int32 and  *)
(* the offset of bms_can.c, there and back).                               *)
THEOREM ReadingsArriveNearest == CanSpec => []ArrivesNearest
<1>1. CanInit => OneSource /\ ArrivesNearest
  BY DEF CanInit, OneSource, ArrivesNearest
<1>2. CanInv /\ OneSource /\ ArrivesNearest /\ [CanNext]_canVars
        => OneSource' /\ ArrivesNearest'
  <2> SUFFICES ASSUME CanInv, OneSource, ArrivesNearest, [CanNext]_canVars
               PROVE  OneSource' /\ ArrivesNearest'
    OBVIOUS
  <2>1. CASE SenderSteps
    BY <2>1 DEF SenderSteps, heardVars, OneSource, ArrivesNearest
  <2>2. CASE Publish
    BY <2>2 DEF Publish, heardVars, OneSource, ArrivesNearest
  <2>3. CASE OtherSends
    BY <2>3 DEF OtherSends, heardVars, OneSource, ArrivesNearest
  <2>4. CASE Receive
    <3>1. OneSource'
      BY <2>4 DEF Receive, OneSource
    <3>2. QED
      BY <2>4, <3>1, ReceiveIsNearest DEF CanInv
  <2>5. ASSUME NEW n \in Node, NEW id \in Ids, SetBaseId(n, id)
        PROVE  OneSource' /\ ArrivesNearest'
    BY <2>5 DEF SetBaseId, heardVars, OneSource, ArrivesNearest
  <2>6. CASE UNCHANGED canVars
    BY <2>6 DEF canVars, heardVars, OneSource, ArrivesNearest
  <2>7. QED
    BY <2>1, <2>2, <2>3, <2>4, <2>5, <2>6 DEF CanNext
<1>3. CanSpec => []CanInv
  BY CanInvHolds
<1>4. QED
  BY <1>1, <1>2, <1>3, PTL DEF CanSpec

-----------------------------------------------------------------------------
Label == {"init", "load", "store", "pollLoad", "pollStore", "getc", "sleep", "work",
          "gone", "check", "feed", "clear", "alarm", "stuck"}

(* The types that the arguments below need. *)
Typed == /\ flags \subseteq Monitored
         /\ reg \in [Monitored -> SUBSET Monitored]
         /\ pc \in [Task -> Label]
         /\ run \in Task \cup {Idle}
         /\ frozen \in BOOLEAN
         /\ splits \in Nat /\ missed \in Nat

(* Nothing runs before the supervisor has opened the first window. *)
StartsFirst == pc["WDT"] = "init" =>
                   run = "WDT" /\ wake["WDT"] = 0 /\ prio = PrioAtBoot /\ ~frozen

(* A frozen CLI is out of its loop. *)
FrozenIsGone == frozen => pc["CLI"] = "gone"

Base == Typed /\ StartsFirst /\ FrozenIsGone

Storing(t) == pc[t] \in StoreStep

(* While no heartbeat has been split, a task between its load and its      *)
(* store is the running one, and its copy is what the flags still are.     *)
CopyIsCurrent ==
    splits = 0 => /\ flags = beats
                  /\ \A t \in Monitored : Storing(t) => run = t /\ reg[t] = flags

(* What each task's copy can still do: the AI or BMS task that has been    *)
(* switched out of a heartbeat, or whose copy has a bit of the CLI that    *)
(* the flags no longer have, can bring that bit back once.                 *)
Out(t)     == IF Storing(t) /\ run # t THEN 1 ELSE 0
Stale(t)   == IF Storing(t) /\ "CLI" \in reg[t] /\ ~(run = t /\ "CLI" \in flags)
              THEN 1 ELSE 0
(* The window in force will be accepted, or still may be. *)
Open       == IF pc["WDT"] = "feed" \/ ("CLI" \in flags /\ pc["WDT"] # "clear")
              THEN 1 ELSE 0

SplitsArePaid == /\ Out("AI") + Out("BMS") <= splits
                 /\ ~frozen => missed = 0
                 /\ frozen => missed + Open + Stale("AI") + Stale("BMS") <= 1 + splits

-----------------------------------------------------------------------------
(* The scheduler picks a task or the idle loop, and the supervisor while   *)
(* it is ready and the priorities are those of main.c.                     *)
LEMMA DispatchRuns ==
  ASSUME NEW keep \in BOOLEAN, Dispatch(keep)
  PROVE  run' \in Task \cup {Idle}
<1>1. Top' \subseteq Task
  BY DEF Top
<1>2. QED
  BY <1>1 DEF Dispatch

(* A running supervisor that does not sleep stays the one that runs.       *)
LEMMA SupervisorIsTop ==
  ASSUME NEW keep \in BOOLEAN, Dispatch(keep),
         run = "WDT", wake'["WDT"] = 0, prio' = PrioAtBoot
  PROVE  run' = "WDT"
<1>1. Ready("WDT")' /\ "WDT" \in Task
  BY DEF Ready, Task
<1>2. \A t \in Task : prio'[t] <= prio'["WDT"]
  BY DEF PrioAtBoot, Task, Monitored
<1>3. \A t \in Task : prio'["WDT"] <= prio'[t] => t = "WDT"
  BY DEF PrioAtBoot, Task, Monitored
<1>4. Top' = {"WDT"}
  BY <1>1, <1>2, <1>3 DEF Top
<1>5. QED
  BY <1>4 DEF Dispatch

-----------------------------------------------------------------------------
(* The base invariant holds when the scheduler starts.                     *)
LEMMA BaseInit == HealthInit => Base
<1> SUFFICES ASSUME HealthInit PROVE Base
  OBVIOUS
<1>1. pc \in [Task -> Label]
  BY DEF HealthInit, PcAtBoot, Label, Task, Monitored
<1>2. reg \in [Monitored -> SUBSET Monitored]
  BY DEF HealthInit
<1>3. QED
  BY <1>1, <1>2 DEF HealthInit, Base, Typed, StartsFirst, FrozenIsGone, Task

(* Every step keeps types, the order of the supervisor's loop and frozen   *)
(* tasks out of the way.                                                   *)
LEMMA BaseInductive == Base /\ [HealthNext]_healthVars => Base'
<1> SUFFICES ASSUME Base, [HealthNext]_healthVars PROVE Base'
  OBVIOUS
<1> USE DEF Base, Typed, StartsFirst, FrozenIsGone, Label, Task, Monitored, Goto, Running
<1>1. ASSUME NEW t \in Monitored, HeartbeatLoad(t) PROVE Base'
  BY <1>1 DEF HeartbeatLoad, LoadStep, schedVars, wdtVars
<1>2. ASSUME NEW t \in Monitored, HeartbeatStore(t) PROVE Base'
  BY <1>2 DEF HeartbeatStore, StoreStep, schedVars, wdtVars
<1>3. ASSUME NEW t \in {"AI", "BMS"}, NEW n, Work(t, n) PROVE Base'
  <2>1. run' \in Task \cup {Idle} /\ UNCHANGED frozen
    BY <1>3, DispatchRuns DEF Work, Delay
  <2>2. pc' \in [Task -> Label] /\ pc'["WDT"] = pc["WDT"] /\ pc'["CLI"] = pc["CLI"]
    BY <1>3 DEF Work
  <2>3. QED
    BY <1>3, <2>1, <2>2 DEF Work, flagVars, wdtVars
<1>4. CASE CliNoInput \/ CliKey
  <2>1. /\ UNCHANGED <<flags, reg, run, frozen, splits, missed, prio, wake>>
        /\ pc["CLI"] = "getc" /\ pc' \in {pc, [pc EXCEPT !["CLI"] = "pollLoad"]}
    BY <1>4 DEF CliNoInput, CliKey, flagVars, schedVars, wdtVars
  <2>2. QED
    BY <2>1
<1>5. CASE CliPollSleep \/ CliCommand
  <2>1. run' \in Task \cup {Idle} /\ UNCHANGED frozen
    BY <1>5, DispatchRuns DEF CliPollSleep, CliCommand, Delay
  <2>2. pc' \in [Task -> Label] /\ pc'["WDT"] = pc["WDT"] /\ pc["CLI"] # "gone"
    BY <1>5 DEF CliPollSleep, CliCommand
  <2>3. QED
    BY <1>5, <2>1, <2>2 DEF CliPollSleep, CliCommand, flagVars, wdtVars
<1>6. CASE CliFreeze
  BY <1>6, DispatchRuns DEF CliFreeze, flagVars, wdtVars
<1>7. ASSUME NEW p \in {1, 4}, CliSetAiPriority(p) PROVE Base'
  BY <1>7, DispatchRuns DEF CliSetAiPriority, flagVars, wdtVars
<1>8. CASE WdtInit \/ WdtCheck \/ WdtFeed
  <2>1. UNCHANGED <<run, frozen, reg>>
    BY <1>8 DEF WdtInit, WdtCheck, WdtFeed, flagVars, schedVars
  <2>2. pc' \in [Task -> Label] /\ pc'["WDT"] # "init" /\ pc'["CLI"] = pc["CLI"]
    BY <1>8 DEF WdtInit, WdtCheck, WdtFeed
  <2>3. flags' \subseteq Monitored /\ splits' \in Nat /\ missed' \in Nat
    <3>1. CASE WdtInit
      BY <3>1 DEF WdtInit
    <3>2. CASE WdtCheck
      BY <3>2 DEF WdtCheck, flagVars, wdtVars
    <3>3. CASE WdtFeed
      BY <3>3 DEF WdtFeed, flagVars
    <3>4. QED
      BY <1>8, <3>1, <3>2, <3>3
  <2>4. QED
    BY <2>1, <2>2, <2>3
<1>9. CASE WdtClear \/ WdtAlarm \/ WdtStuck
  <2>1. run' \in Task \cup {Idle} /\ UNCHANGED <<frozen, reg>>
    BY <1>9, DispatchRuns DEF WdtClear, WdtAlarm, WdtStuck, Delay, flagVars
  <2>2. pc' \in [Task -> Label] /\ pc'["WDT"] # "init" /\ pc'["CLI"] = pc["CLI"]
    BY <1>9 DEF WdtClear, WdtAlarm, WdtStuck
  <2>3. flags' \subseteq Monitored /\ splits' \in Nat /\ missed' \in Nat
    BY <1>9 DEF WdtClear, WdtAlarm, WdtStuck, flagVars, wdtVars
  <2>4. QED
    BY <2>1, <2>2, <2>3
<1>10. CASE Tick
  <2>1. Typed'
    <3>1. run' \in Task \cup {Idle}
      BY <1>10, DispatchRuns DEF Tick
    <3>2. splits' \in Nat
      BY <1>10 DEF Tick
    <3>3. QED
      BY <1>10, <3>1, <3>2 DEF Tick, flagVars
  <2>2. StartsFirst'
    <3>1. pc["WDT"] = "init" => wake'["WDT"] = 0 /\ prio' = PrioAtBoot /\ ~frozen'
      BY <1>10 DEF Tick
    <3>2. QED
      BY <1>10, <3>1, SupervisorIsTop DEF Tick
  <2>3. QED
    BY <1>10, <2>1, <2>2 DEF Tick
<1>11. CASE Reboot
  BY <1>11 DEF Reboot, PcAtBoot
<1>12. CASE UNCHANGED healthVars
  BY <1>12 DEF healthVars, flagVars, schedVars, wdtVars
<1>13. QED
  BY <1>1, <1>2, <1>3, <1>4, <1>5, <1>6, <1>7, <1>8, <1>9, <1>10, <1>11, <1>12
  DEF HealthNext, TaskStep, Cli, Wdt, AiWork, BmsWork

-----------------------------------------------------------------------------
(* Every step keeps the flags the true heartbeats and a loaded copy        *)
(* current while no heartbeat was split.                                   *)
LEMMA CopyInductive == Base /\ CopyIsCurrent /\ [HealthNext]_healthVars => CopyIsCurrent'
<1> SUFFICES ASSUME Base, CopyIsCurrent, [HealthNext]_healthVars PROVE CopyIsCurrent'
  OBVIOUS
<1> USE DEF Base, Typed, CopyIsCurrent, Storing, StoreStep, Task, Monitored, Goto, Running
<1>1. ASSUME NEW t \in Monitored, HeartbeatLoad(t) PROVE CopyIsCurrent'
  BY <1>1 DEF HeartbeatLoad, LoadStep, schedVars, wdtVars
<1>2. ASSUME NEW t \in Monitored, HeartbeatStore(t) PROVE CopyIsCurrent'
  BY <1>2 DEF HeartbeatStore, schedVars, wdtVars
<1>3. CASE AiWork \/ BmsWork
  BY <1>3 DEF AiWork, BmsWork, Work, Delay, flagVars, wdtVars
<1>4. CASE CliNoInput \/ CliKey
  BY <1>4 DEF CliNoInput, CliKey, flagVars, schedVars, wdtVars
<1>5. CASE CliPollSleep \/ CliCommand
  BY <1>5 DEF CliPollSleep, CliCommand, Delay, flagVars, wdtVars
<1>6. CASE CliFreeze
  BY <1>6 DEF CliFreeze, flagVars, wdtVars
<1>7. ASSUME NEW p \in {1, 4}, CliSetAiPriority(p) PROVE CopyIsCurrent'
  BY <1>7 DEF CliSetAiPriority, flagVars, wdtVars
<1>8. CASE WdtInit \/ WdtCheck \/ WdtFeed
  BY <1>8 DEF WdtInit, WdtCheck, WdtFeed, flagVars, schedVars, wdtVars
<1>9. CASE WdtClear \/ WdtAlarm \/ WdtStuck
  BY <1>9 DEF WdtClear, WdtAlarm, WdtStuck, Delay, flagVars, wdtVars
<1>10. CASE Tick
  <2>1. UNCHANGED <<flags, beats, reg, pc>>
    BY <1>10 DEF Tick, flagVars
  <2>2. CASE run # Idle /\ pc[run] \in StoreStep
    <3>1. splits' = splits + 1
      BY <1>10, <2>2 DEF Tick
    <3>2. QED
      BY <3>1
  <2>3. CASE ~(run # Idle /\ pc[run] \in StoreStep)
    <3>1. splits' = splits
      BY <1>10, <2>3 DEF Tick
    <3>2. ASSUME splits = 0, NEW t \in Monitored PROVE ~Storing(t)
      BY <2>3, <3>2 DEF Idle
    <3>3. QED
      BY <2>1, <3>1, <3>2
  <2>4. QED
    BY <2>2, <2>3
<1>11. CASE Reboot
  BY <1>11 DEF Reboot, PcAtBoot
<1>12. CASE UNCHANGED healthVars
  BY <1>12 DEF healthVars, flagVars, schedVars, wdtVars
<1>13. QED
  BY <1>1, <1>2, <1>3, <1>4, <1>5, <1>6, <1>7, <1>8, <1>9, <1>10, <1>11, <1>12
  DEF HealthNext, TaskStep, Cli, Wdt

(* THEOREM FlagsAreExact: until a tick lands between the load and the      *)
(* store of health_flags |= bit, the flags are the record of who reported, *)
(* for every schedule, period, priority change and job length.             *)
THEOREM FlagsAreExact == HealthSpec => []FlagsAreBeats
<1>1. HealthInit => CopyIsCurrent
  BY DEF HealthInit, CopyIsCurrent, Storing, StoreStep, PcAtBoot, Task, Monitored
<1>2. CopyIsCurrent => FlagsAreBeats
  BY DEF CopyIsCurrent, FlagsAreBeats
<1>3. QED
  BY <1>1, <1>2, BaseInit, BaseInductive, CopyInductive, PTL DEF HealthSpec

-----------------------------------------------------------------------------
(* A step of another task leaves a task's copy no more harmful than it was. *)
LEMMA OtherStepIsFree ==
  ASSUME Base, SplitsArePaid, UNCHANGED <<reg, frozen, missed, splits>>,
         \A t \in {"AI", "BMS"} : Storing(t)' => Storing(t) /\ run # t,
         Open' <= Open
  PROVE  SplitsArePaid'
<1>1. ASSUME NEW t \in {"AI", "BMS"} PROVE Out(t)' <= Out(t) /\ Stale(t)' <= Stale(t)
  BY DEF Out, Stale
<1>2. /\ Out("AI")' <= Out("AI") /\ Out("BMS")' <= Out("BMS")
      /\ Stale("AI")' <= Stale("AI") /\ Stale("BMS")' <= Stale("BMS")
  BY <1>1
<1>3. \A t \in {"AI", "BMS"} : {Out(t), Out(t)', Stale(t), Stale(t)'} \subseteq Nat
  BY DEF Out, Stale
<1>4. {Open, Open'} \subseteq Nat
  BY DEF Open
<1>5. QED
  BY <1>2, <1>3, <1>4 DEF SplitsArePaid, Base, Typed

(* Every step keeps each window that passes with a frozen CLI paid for by  *)
(* a split heartbeat.                                                      *)
LEMMA SplitsInductive == Base /\ SplitsArePaid /\ [HealthNext]_healthVars => SplitsArePaid'
<1> SUFFICES ASSUME Base, SplitsArePaid, [HealthNext]_healthVars PROVE SplitsArePaid'
  OBVIOUS
<1> USE DEF Base, Typed, FrozenIsGone, SplitsArePaid, Out, Stale, Open, Storing, StoreStep,
            Label, Task, Monitored, Goto, Running
<1>1. ASSUME NEW t \in Monitored, HeartbeatLoad(t) PROVE SplitsArePaid'
  BY <1>1 DEF HeartbeatLoad, LoadStep, schedVars, wdtVars
<1>2. ASSUME NEW t \in Monitored, HeartbeatStore(t) PROVE SplitsArePaid'
  BY <1>2 DEF HeartbeatStore, schedVars, wdtVars
<1>3. CASE AiWork \/ BmsWork
  <2>1. UNCHANGED <<flags, reg, frozen, missed, splits>>
    BY <1>3 DEF AiWork, BmsWork, Work, Delay, flagVars, wdtVars
  <2>2. \A t \in {"AI", "BMS"} : Storing(t)' => Storing(t) /\ run # t
    BY <1>3 DEF AiWork, BmsWork, Work
  <2>3. Open' <= Open
    BY <1>3, <2>1 DEF AiWork, BmsWork, Work
  <2>4. QED
    BY <2>1, <2>2, <2>3, OtherStepIsFree
<1>4. CASE CliNoInput \/ CliKey
  BY <1>4 DEF CliNoInput, CliKey, flagVars, schedVars, wdtVars
<1>5. CASE CliPollSleep \/ CliCommand
  <2>1. UNCHANGED <<flags, reg, frozen, missed, splits>>
    BY <1>5 DEF CliPollSleep, CliCommand, Delay, flagVars, wdtVars
  <2>2. \A t \in {"AI", "BMS"} : Storing(t)' => Storing(t) /\ run # t
    BY <1>5 DEF CliPollSleep, CliCommand
  <2>3. Open' <= Open
    BY <1>5, <2>1 DEF CliPollSleep, CliCommand
  <2>4. QED
    BY <2>1, <2>2, <2>3, OtherStepIsFree
<1>6. CASE CliFreeze
  BY <1>6 DEF CliFreeze, flagVars, wdtVars
<1>7. ASSUME NEW p \in {1, 4}, CliSetAiPriority(p) PROVE SplitsArePaid'
  BY <1>7 DEF CliSetAiPriority, flagVars, wdtVars
<1>8. CASE WdtInit \/ WdtCheck \/ WdtFeed
  BY <1>8 DEF WdtInit, WdtCheck, WdtFeed, flagVars, schedVars, wdtVars, StartsFirst
<1>9. CASE WdtClear \/ WdtAlarm \/ WdtStuck
  <2>1. UNCHANGED <<reg, frozen, missed, splits>>
    BY <1>9 DEF WdtClear, WdtAlarm, WdtStuck, Delay, flagVars, wdtVars
  <2>2. \A t \in {"AI", "BMS"} : Storing(t)' => Storing(t) /\ run # t
    BY <1>9 DEF WdtClear, WdtAlarm, WdtStuck
  <2>3. Open' <= Open
    BY <1>9 DEF WdtClear, WdtAlarm, WdtStuck, flagVars
  <2>4. QED
    BY <2>1, <2>2, <2>3, OtherStepIsFree
<1>10. CASE Tick
  <2>1. UNCHANGED <<flags, reg, pc, frozen, missed>>
    BY <1>10 DEF Tick, flagVars
  <2>2. CASE run # Idle /\ pc[run] \in StoreStep
    \* The split heartbeat is the only one that can go from current to stale.
    <3>1. splits' = splits + 1
      BY <1>10, <2>2 DEF Tick
    <3>2. ASSUME NEW t \in {"AI", "BMS"}, run # t
          PROVE  Out(t)' <= Out(t) /\ Stale(t)' <= Stale(t)
      BY <2>1, <3>2
    <3>3. ASSUME NEW t \in {"AI", "BMS"}
          PROVE  Out(t)' <= Out(t) + 1 /\ Stale(t)' <= Stale(t) + 1
      BY <2>1
    <3>4. Open' = Open
      BY <2>1
    <3>5. QED
      BY <2>1, <3>1, <3>2, <3>3, <3>4
  <2>3. CASE ~(run # Idle /\ pc[run] \in StoreStep)
    <3>1. splits' = splits
      BY <1>10, <2>3 DEF Tick
    <3>2. \A t \in {"AI", "BMS"} : Storing(t)' => Storing(t) /\ run # t
      BY <2>1, <2>3 DEF Idle
    <3>3. QED
      BY <2>1, <3>1, <3>2, OtherStepIsFree
  <2>4. QED
    BY <2>2, <2>3
<1>11. CASE Reboot
  BY <1>11 DEF Reboot, PcAtBoot
<1>12. CASE UNCHANGED healthVars
  BY <1>12 DEF healthVars, flagVars, schedVars, wdtVars
<1>13. QED
  BY <1>1, <1>2, <1>3, <1>4, <1>5, <1>6, <1>7, <1>8, <1>9, <1>10, <1>11, <1>12
  DEF HealthNext, TaskStep, Cli, Wdt

(* THEOREM FreezeIsDetected: the supervisor accepts a frozen CLI for the   *)
(* window it froze in and once more per split heartbeat, however the       *)
(* tasks' stale copies chase each other.                                   *)
THEOREM FreezeIsDetected == HealthSpec => []DetectionBound
<1>1. HealthInit => SplitsArePaid
  BY DEF HealthInit, SplitsArePaid, Out, Stale, Open, Storing, StoreStep, PcAtBoot, Task, Monitored
<1>2. Base /\ SplitsArePaid => DetectionBound
  BY DEF Base, Typed, SplitsArePaid, Out, Stale, Open, DetectionBound
<1>3. QED
  BY <1>1, <1>2, BaseInit, BaseInductive, SplitsInductive, PTL DEF HealthSpec

-----------------------------------------------------------------------------
(* Where the tasks are in their loops while they run and while they sleep. *)
Loops == /\ pc["AI"] \in {"load", "store", "work"}
         /\ pc["BMS"] \in {"load", "store", "work"}
         /\ pc["CLI"] \in {"load", "store", "getc", "pollLoad", "pollStore", "sleep",
                           "work", "gone"}
         /\ wake["WDT"] > 0 => pc["WDT"] \in {"check", "stuck"}
         /\ wake["AI"] > 0 => pc["AI"] = "load" /\ wake["AI"] <= AiPeriod
         /\ wake["BMS"] > 0 => pc["BMS"] = "load" /\ wake["BMS"] <= BmsPeriod
         /\ wake["CLI"] > 0 => pc["CLI"] \in {"load", "getc"} /\ wake["CLI"] <= CliPause

(* The processor idles only when no task is ready.                         *)
Working == IF run = Idle THEN \A t \in Task : ~Ready(t) ELSE Ready(run)

Clocked == /\ prio \in [Task -> Nat]
           /\ wake \in [Task -> Nat]
           /\ busy \in Nat /\ busy <= WdtWindow

Placed == Clocked /\ Working /\ Loops

(* The ticks that each task still sleeps before its next heartbeat.        *)
CliSleep == IF pc["CLI"] = "sleep" THEN 2 * CliPause
            ELSE IF pc["CLI"] \in {"getc", "work"} THEN wake["CLI"] + CliPause
            ELSE wake["CLI"]
Sleep(t) == IF t = "CLI" THEN CliSleep
            ELSE IF pc[t] = "work" THEN SleepOf[t] ELSE wake[t]

(* While no heartbeat is split, a task that has not reported in the open   *)
(* window sleeps no longer than what is left of it, but for the ticks at   *)
(* which somebody ran.                                                     *)
Left    == IF pc["WDT"] = "check" THEN wake["WDT"] ELSE 0
Late(t) == WdtWindow + Sleep(t) <= SleepOf[t] + busy + Left
InTime  == splits = 0 /\ pc["WDT"] \in {"check", "alarm"} =>
               \A t \in Monitored \ flags : (t = "CLI" /\ frozen) \/ Late(t)

(* The scheduler runs a ready task whenever there is one.                  *)
LEMMA DispatchWorks ==
  ASSUME NEW keep \in BOOLEAN, Dispatch(keep), prio' \in [Task -> Nat]
  PROVE  Working'
<1>1. CASE Top' = {}
  <2>1. run' = Idle
    BY <1>1 DEF Dispatch
  <2>2. \A t \in Task : Ready(t)' => \E u \in Task : Ready(u)' /\ ~(prio'[u] <= prio'[t])
    BY <1>1 DEF Top
  <2>3. \A t \in Task : ~Ready(t)'
    <3> DEFINE r(t) == Ready(t)'
               p(t) == prio'[t]
    <3>1. p("WDT") \in Nat /\ p("CLI") \in Nat /\ p("AI") \in Nat /\ p("BMS") \in Nat
      BY DEF Task, Monitored
    <3>2. \A t \in {"WDT", "CLI", "AI", "BMS"} :
              r(t) => \E u \in {"WDT", "CLI", "AI", "BMS"} : r(u) /\ ~(p(u) <= p(t))
      BY <2>2 DEF Task, Monitored
    <3> HIDE DEF r, p
    <3>3. \A t \in {"WDT", "CLI", "AI", "BMS"} : ~r(t)
      BY <3>1, <3>2
    <3>4. QED
      BY <3>3 DEF r, Task, Monitored
  <2>4. QED
    BY <2>1, <2>3 DEF Working
<1>2. CASE Top' # {}
  <2>1. run' \in Top'
    BY <1>2 DEF Dispatch
  <2>2. run' \in Task /\ Ready(run)'
    BY <2>1 DEF Top, Ready
  <2>3. QED
    BY <2>2 DEF Working, Task, Monitored, Idle
<1>3. QED
  BY <1>1, <1>2

(* Every step keeps the clocks, the running task and the loops in place.   *)
LEMMA PlacedInductive == Base /\ Placed /\ [HealthNext]_healthVars => Placed'
<1> SUFFICES ASSUME Base, Placed, [HealthNext]_healthVars PROVE Placed'
  OBVIOUS
<1> USE PeriodAssumption
    DEF Base, Typed, StartsFirst, FrozenIsGone, Placed, Clocked, Loops,
        Task, Monitored, Goto, Running
(* A delay of the running task, as the last thing it does in its job.      *)
<1>0. ASSUME NEW t \in Task, run = t, NEW n \in Nat \ {0}, Delay(t, n),
             busy' \in {0, busy}
      PROVE  Clocked' /\ Working'
  <2>1. Clocked'
    BY <1>0 DEF Delay
  <2>2. Working'
    BY <1>0, <2>1, DispatchWorks DEF Delay
  <2>3. QED
    BY <2>1, <2>2
<1>1. ASSUME NEW t \in Monitored, HeartbeatLoad(t) PROVE Placed'
  <2>1. Loops'
    BY <1>1 DEF HeartbeatLoad, LoadStep, schedVars, Label, Working, Ready, Idle
  <2>2. Clocked' /\ Working'
    BY <1>1 DEF HeartbeatLoad, schedVars, wdtVars, Working, Ready
  <2>3. QED
    BY <2>1, <2>2
<1>2. ASSUME NEW t \in Monitored, HeartbeatStore(t) PROVE Placed'
  <2>1. Loops'
    BY <1>2 DEF HeartbeatStore, StoreStep, schedVars, Label, Working, Ready, Idle
  <2>2. Clocked' /\ Working'
    BY <1>2 DEF HeartbeatStore, schedVars, wdtVars, Working, Ready
  <2>3. QED
    BY <2>1, <2>2
<1>3. ASSUME NEW t \in {"AI", "BMS"}, NEW n \in Nat \ {0}, Work(t, n),
             n = IF t = "AI" THEN AiPeriod ELSE BmsPeriod
      PROVE  Placed'
  <2>1. Clocked' /\ Working'
    BY <1>0, <1>3 DEF Work, wdtVars
  <2>2. Loops'
    BY <1>3 DEF Work, Delay, Label
  <2>3. QED
    BY <2>1, <2>2
<1>4. CASE CliNoInput \/ CliKey
  <2>1. UNCHANGED <<prio, wake, frozen, run, busy>>
    BY <1>4 DEF CliNoInput, CliKey, schedVars, wdtVars
  <2>2. Clocked' /\ Working'
    BY <2>1 DEF Working, Ready
  <2>3. /\ \A t \in Task \ {"CLI"} : pc'[t] = pc[t]
        /\ pc'["CLI"] \in {"pollLoad", "getc"} /\ wake["CLI"] = 0
    BY <1>4 DEF CliNoInput, CliKey, Label, Working, Ready, Idle
  <2>4. Loops'
    BY <2>1, <2>3
  <2>5. QED
    BY <2>2, <2>4
<1>5. CASE CliPollSleep \/ CliCommand
  <2>1. Clocked' /\ Working'
    BY <1>0, <1>5 DEF CliPollSleep, CliCommand, wdtVars
  <2>2. /\ \A t \in Task \ {"CLI"} : pc'[t] = pc[t]
        /\ pc'["CLI"] \in {"load", "getc"}
        /\ wake' = [wake EXCEPT !["CLI"] = CliPause]
    BY <1>5 DEF CliPollSleep, CliCommand, Delay, Label
  <2>3. Loops'
    BY <2>2
  <2>4. QED
    BY <2>1, <2>3
<1>6. CASE CliFreeze
  <2>1. Clocked' /\ Working'
    BY <1>6, DispatchWorks DEF CliFreeze, wdtVars
  <2>2. Loops'
    BY <1>6 DEF CliFreeze, Label, Working, Ready, Idle
  <2>3. QED
    BY <2>1, <2>2
<1>7. ASSUME NEW p \in {1, 4}, CliSetAiPriority(p) PROVE Placed'
  <2>1. prio' \in [Task -> Nat] /\ UNCHANGED <<wake, busy>> /\ Dispatch(TRUE)
    <3>1. prio' = [prio EXCEPT !["AI"] = p] /\ p \in Nat
      BY <1>7 DEF CliSetAiPriority
    <3>2. prio' \in [Task -> Nat]
      BY <3>1
    <3>3. UNCHANGED <<wake, busy>> /\ Dispatch(TRUE)
      BY <1>7 DEF CliSetAiPriority, wdtVars
    <3>4. QED
      BY <3>2, <3>3
  <2>2. Clocked' /\ Working'
    BY <2>1, DispatchWorks
  <2>3. wake["CLI"] = 0
    BY <1>7 DEF CliSetAiPriority, Working, Ready, Idle
  <2>4. pc' = [pc EXCEPT !["CLI"] = "work"]
    BY <1>7 DEF CliSetAiPriority
  <2>5. Loops'
    BY <2>1, <2>3, <2>4 DEF Label
  <2>6. QED
    BY <2>2, <2>5
<1>8. CASE WdtInit \/ WdtCheck \/ WdtFeed
  <2>1. /\ UNCHANGED schedVars /\ run = "WDT" /\ busy' \in {0, busy}
        /\ \A t \in Monitored : pc'[t] = pc[t]
    BY <1>8 DEF WdtInit, WdtCheck, WdtFeed, Label, wdtVars
  <2>2. Clocked' /\ Working'
    BY <2>1 DEF schedVars, Working, Ready
  <2>3. wake["WDT"] = 0
    BY <2>1 DEF Working, Ready, Idle
  <2>4. Loops'
    BY <2>1, <2>3 DEF schedVars
  <2>5. QED
    BY <2>2, <2>4
<1>9. CASE WdtClear \/ WdtAlarm \/ WdtStuck
  <2>1. \E n \in Nat \ {0} : Delay("WDT", n) /\ run = "WDT" /\ busy' \in {0, busy}
    BY <1>9 DEF WdtClear, WdtAlarm, WdtStuck, wdtVars
  <2>2. Clocked' /\ Working'
    BY <1>0, <2>1
  <2>3. pc'["WDT"] \in {"check", "stuck"} /\ \A t \in Monitored : pc'[t] = pc[t]
    BY <1>9 DEF WdtClear, WdtAlarm, WdtStuck, Label
  <2>4. \A t \in Monitored : wake'[t] = wake[t]
    BY <2>1 DEF Delay
  <2>5. Loops'
    BY <2>1, <2>3, <2>4
  <2>6. QED
    BY <2>2, <2>5
<1>10. CASE Tick
  <2>1. Clocked'
    <3>1. wake' \in [Task -> Nat] /\ prio' \in [Task -> Nat]
      BY <1>10 DEF Tick
    <3>2. busy' \in Nat /\ busy' <= WdtWindow
      BY <1>10 DEF Tick
    <3>3. QED
      BY <3>1, <3>2
  <2>2. Working'
    BY <1>10, <2>1, DispatchWorks DEF Tick
  <2>3. pc' = pc /\ \A t \in Task : wake'[t] <= wake[t]
    BY <1>10 DEF Tick
  <2>4. Loops'
    BY <2>1, <2>3
  <2>5. QED
    BY <2>1, <2>2, <2>4
<1>11. CASE Reboot
  <2>1. Loops'
    BY <1>11 DEF Reboot, PcAtBoot
  <2>2. Clocked'
    BY <1>11 DEF Reboot, PrioAtBoot
  <2>3. Working'
    BY <1>11 DEF Reboot, Working, Ready, Idle
  <2>4. QED
    BY <2>1, <2>2, <2>3
<1>12. CASE UNCHANGED healthVars
  BY <1>12 DEF healthVars, flagVars, schedVars, wdtVars, Working, Ready
<1>13. QED
  BY <1>1, <1>2, <1>3, <1>4, <1>5, <1>6, <1>7, <1>8, <1>9, <1>10, <1>11, <1>12
  DEF HealthNext, TaskStep, Cli, Wdt, AiWork, BmsWork

(* No task ever sleeps longer than its delays add up to.                   *)
LEMMA SleepIsBounded ==
  Placed => \A t \in Monitored :
                Sleep(t) \in Nat /\ SleepOf[t] \in Nat /\ Sleep(t) <= SleepOf[t]
<1> SUFFICES ASSUME Placed, NEW t \in Monitored
             PROVE  Sleep(t) \in Nat /\ SleepOf[t] \in Nat /\ Sleep(t) <= SleepOf[t]
  OBVIOUS
<1> USE PeriodAssumption DEF Placed, Clocked, Loops, Task, Monitored
<1>1. /\ SleepOf["AI"] = AiPeriod /\ SleepOf["BMS"] = BmsPeriod
      /\ SleepOf["CLI"] = 2 * CliPause
  BY DEF SleepOf
<1>2. {AiPeriod, BmsPeriod, CliPause} \subseteq Nat
  OBVIOUS
<1>3. wake["AI"] \in Nat /\ wake["BMS"] \in Nat /\ wake["CLI"] \in Nat
  OBVIOUS
<1>4. wake["AI"] <= AiPeriod /\ wake["BMS"] <= BmsPeriod
  BY <1>2, <1>3
<1>5. CASE t \in {"AI", "BMS"}
  BY <1>1, <1>2, <1>3, <1>4, <1>5 DEF Sleep
<1>6. CASE t = "CLI"
  <2>1. wake["CLI"] <= CliPause
    BY <1>2, <1>3
  <2>2. CliSleep \in Nat /\ CliSleep <= 2 * CliPause
    BY <1>2, <1>3, <2>1 DEF CliSleep
  <2>3. QED
    BY <1>1, <1>2, <1>6, <2>2 DEF Sleep
<1>7. QED
  BY <1>5, <1>6

(* Every step keeps in time whoever has not reported.                      *)
LEMMA InTimeInductive ==
  Base /\ CopyIsCurrent /\ Placed /\ InTime /\ [HealthNext]_healthVars => InTime'
<1> SUFFICES ASSUME Base, CopyIsCurrent, Placed, InTime, [HealthNext]_healthVars,
                    splits' = 0
             PROVE  InTime'
  BY DEF InTime
<1> USE DEF Base, Typed, Goto, Running
<1>a. Placed'
  BY PlacedInductive
<1>b. /\ WdtWindow \in Nat /\ busy \in Nat /\ busy' \in Nat
      /\ busy <= WdtWindow /\ busy' <= WdtWindow
      /\ wake \in [Task -> Nat] /\ wake' \in [Task -> Nat]
      /\ CliPause \in Nat
  BY <1>a, PeriodAssumption DEF Placed, Clocked
<1>c. ASSUME NEW t \in Monitored
      PROVE  Sleep(t) \in Nat /\ SleepOf[t] \in Nat /\ Sleep(t) <= SleepOf[t]
  BY <1>c, SleepIsBounded
<1>d. \A t \in Monitored : Sleep(t)' \in Nat /\ Sleep(t)' <= SleepOf[t]
  <2>1. (\A t \in Monitored :
            Sleep(t) \in Nat /\ SleepOf[t] \in Nat /\ Sleep(t) <= SleepOf[t])'
    BY <1>a, SleepIsBounded, PTL
  <2>2. QED
    BY <2>1
<1>e. {"CLI", "AI", "BMS", "WDT"} = Task /\ {"CLI", "AI", "BMS"} = Monitored
  BY DEF Task, Monitored
<1>f. \A t \in Task : run = t => wake[t] = 0
  BY DEF Placed, Working, Ready, Task, Monitored, Idle
(* A step of a task other than the supervisor, after which nobody who has  *)
(* not reported sleeps longer than before.                                 *)
<1>0. ASSUME splits = 0, flags \subseteq flags', frozen => frozen',
             pc'["WDT"] = pc["WDT"], wake'["WDT"] = wake["WDT"], busy' = busy,
             \A t \in Monitored : \/ t \in flags'
                                  \/ t = "CLI" /\ frozen'
                                  \/ Sleep(t)' <= Sleep(t)
      PROVE  InTime'
  <2> SUFFICES ASSUME pc["WDT"] \in {"check", "alarm"}, NEW t \in Monitored \ flags',
                      ~(t = "CLI" /\ frozen')
               PROVE  Late(t)'
    BY <1>0 DEF InTime
  <2>1. Late(t)
    BY <1>0 DEF InTime
  <2>2. Sleep(t)' <= Sleep(t)
    BY <1>0
  <2>3. Left' = Left /\ Left \in Nat
    BY <1>0, <1>b, <1>e DEF Left
  <2>4. QED
    BY <1>0, <1>b, <1>c, <1>d, <2>1, <2>2, <2>3 DEF Late
<1>1. ASSUME NEW t \in Monitored, HeartbeatLoad(t) PROVE InTime'
  <2>1. UNCHANGED <<flags, wake, frozen, splits, busy>>
    BY <1>1 DEF HeartbeatLoad, schedVars, wdtVars
  <2>2. /\ \A u \in Task \ {t} : pc'[u] = pc[u]
        /\ pc[t] \in {"load", "pollLoad"} /\ pc'[t] \in {"store", "pollStore"}
    BY <1>1, <1>e DEF HeartbeatLoad, LoadStep
  <2>3. \A u \in Monitored : Sleep(u)' = Sleep(u)
    BY <2>1, <2>2, <1>e DEF Sleep, CliSleep
  <2>4. \A u \in Monitored : Sleep(u)' <= Sleep(u)
    BY <2>3, <1>c
  <2>5. QED
    BY <1>0, <1>e, <2>1, <2>2, <2>4
<1>2. ASSUME NEW t \in Monitored, HeartbeatStore(t) PROVE InTime'
  <2>1. UNCHANGED <<wake, frozen, splits, busy>>
    BY <1>2 DEF HeartbeatStore, schedVars, wdtVars
  <2>2. flags' = flags \cup {t}
    BY <1>2, <2>1 DEF HeartbeatStore, CopyIsCurrent, Storing
  <2>3. \A u \in Task \ {t} : pc'[u] = pc[u]
    BY <1>2 DEF HeartbeatStore
  <2>4. \A u \in Monitored \ {t} : Sleep(u)' = Sleep(u)
    BY <2>1, <2>3, <1>e DEF Sleep, CliSleep
  <2>5. \A u \in Monitored \ {t} : Sleep(u)' <= Sleep(u)
    BY <2>4, <1>c
  <2>6. QED
    BY <1>0, <1>e, <2>1, <2>2, <2>3, <2>5
<1>3. ASSUME NEW t \in {"AI", "BMS"}, NEW n, Work(t, n), n = SleepOf[t] PROVE InTime'
  <2>1. /\ UNCHANGED <<flags, frozen, splits, busy>> /\ run = t /\ pc[t] = "work"
        /\ pc' = [pc EXCEPT ![t] = "load"] /\ wake' = [wake EXCEPT ![t] = n]
    BY <1>3 DEF Work, Delay, flagVars, wdtVars
  <2>2. Sleep(t)' = Sleep(t)
    BY <2>1, <1>3, <1>b, <1>e DEF Sleep
  <2>3. \A u \in Task \ {t} : pc'[u] = pc[u] /\ wake'[u] = wake[u]
    BY <2>1, <1>b
  <2>4. \A u \in Monitored \ {t} : Sleep(u)' = Sleep(u)
    BY <2>3, <1>e DEF Sleep, CliSleep
  <2>5. \A u \in Monitored : Sleep(u)' <= Sleep(u)
    BY <2>2, <2>4, <1>c, <1>e
  <2>6. QED
    BY <1>0, <1>e, <2>1, <2>3, <2>5
<1>4. CASE CliNoInput \/ CliKey \/ \E p \in {1, 4} : CliSetAiPriority(p)
  <2>1. UNCHANGED <<flags, wake, frozen, splits, busy>>
    BY <1>4 DEF CliNoInput, CliKey, CliSetAiPriority, flagVars, schedVars, wdtVars
  <2>2. /\ pc["CLI"] = "getc" /\ pc'["CLI"] \in {"pollLoad", "getc", "work"}
        /\ \A u \in Task \ {"CLI"} : pc'[u] = pc[u]
    BY <1>4, <1>e DEF CliNoInput, CliKey, CliSetAiPriority
  <2>3. \A u \in Monitored \ {"CLI"} : Sleep(u)' = Sleep(u)
    BY <2>1, <2>2, <1>e DEF Sleep
  <2>4. CliSleep' <= CliSleep
    BY <2>1, <2>2, <1>b, <1>e DEF CliSleep
  <2>5. \A u \in Monitored : Sleep(u)' <= Sleep(u)
    BY <2>3, <2>4, <1>c, <1>e DEF Sleep
  <2>6. QED
    BY <1>0, <1>e, <2>1, <2>2, <2>5
<1>5. CASE CliPollSleep \/ CliCommand
  <2>1. /\ UNCHANGED <<flags, frozen, splits, busy>> /\ run = "CLI"
        /\ wake' = [wake EXCEPT !["CLI"] = CliPause]
    BY <1>5 DEF CliPollSleep, CliCommand, Delay, flagVars, wdtVars
  <2>2. /\ \A u \in Task \ {"CLI"} : pc'[u] = pc[u] /\ wake'[u] = wake[u]
        /\ wake["CLI"] = 0 /\ wake'["CLI"] = CliPause
        /\ \/ pc["CLI"] = "sleep" /\ pc'["CLI"] = "getc"
           \/ pc["CLI"] \in {"getc", "work"} /\ pc'["CLI"] = "load"
    BY <1>5, <1>b, <1>e, <1>f, <2>1 DEF CliPollSleep, CliCommand
  <2>3. \A u \in Monitored \ {"CLI"} : Sleep(u)' = Sleep(u)
    BY <2>2, <1>e DEF Sleep
  <2>4. CliSleep' <= CliSleep
    BY <2>2, <1>b DEF CliSleep
  <2>5. \A u \in Monitored : Sleep(u)' <= Sleep(u)
    BY <2>3, <2>4, <1>c, <1>e DEF Sleep
  <2>6. QED
    BY <1>0, <1>e, <2>1, <2>2, <2>5
<1>6. CASE CliFreeze
  <2>1. UNCHANGED <<flags, wake, splits, busy>> /\ frozen'
    BY <1>6 DEF CliFreeze, flagVars, wdtVars
  <2>2. \A u \in Task \ {"CLI"} : pc'[u] = pc[u]
    BY <1>6 DEF CliFreeze
  <2>3. \A u \in Monitored \ {"CLI"} : Sleep(u)' = Sleep(u)
    BY <2>1, <2>2, <1>e DEF Sleep
  <2>4. \A u \in Monitored \ {"CLI"} : Sleep(u)' <= Sleep(u)
    BY <2>3, <1>c
  <2>5. QED
    BY <1>0, <1>e, <2>1, <2>2, <2>4
<1>7. CASE WdtInit
  <2>1. flags' = Monitored
    BY <1>7 DEF WdtInit
  <2>2. QED
    BY <2>1 DEF InTime
<1>8. CASE WdtCheck
  <2>1. /\ UNCHANGED <<flags, wake, frozen, splits, busy>> /\ run = "WDT"
        /\ pc["WDT"] = "check" /\ pc'["WDT"] \in {"feed", "alarm"}
        /\ \A u \in Monitored : pc'[u] = pc[u]
    BY <1>8, <1>e DEF WdtCheck, flagVars, schedVars, wdtVars
  <2>2. Left = 0 /\ Left' = 0
    BY <2>1, <1>e, <1>f DEF Left
  <2>3. \A t \in Monitored : Sleep(t)' = Sleep(t)
    BY <2>1, <1>e DEF Sleep, CliSleep
  <2>4. \A t \in Monitored : Late(t)' <=> Late(t)
    BY <2>1, <2>2, <2>3 DEF Late
  <2>5. QED
    BY <2>1, <2>4 DEF InTime
<1>9. CASE WdtFeed
  BY <1>9, <1>e DEF WdtFeed, InTime
<1>10. CASE WdtClear
  <2>1. /\ pc'["WDT"] = "check" /\ wake'["WDT"] = WdtWindow /\ busy' = 0
    BY <1>10, <1>b, <1>e DEF WdtClear, Delay
  <2>2. \A t \in Monitored : Late(t)'
    BY <2>1, <1>b, <1>c, <1>d DEF Late, Left
  <2>3. QED
    BY <2>2 DEF InTime
<1>11. CASE WdtAlarm \/ WdtStuck
  <2>1. pc'["WDT"] = "stuck"
    BY <1>11, <1>e DEF WdtAlarm, WdtStuck
  <2>2. QED
    BY <2>1 DEF InTime
<1>12. CASE Tick
  <2>1. /\ UNCHANGED <<flags, pc, frozen>> /\ splits = 0
        /\ \A t \in Task : wake'[t] = IF wake[t] = 0 THEN 0 ELSE wake[t] - 1
        /\ busy' = IF run = Idle \/ busy = WdtWindow THEN busy ELSE busy + 1
    BY <1>12 DEF Tick, flagVars
  <2> SUFFICES ASSUME pc["WDT"] \in {"check", "alarm"}, NEW t \in Monitored \ flags,
                      ~(t = "CLI" /\ frozen)
               PROVE  Late(t)'
    BY <2>1 DEF InTime
  <2>2. Late(t)
    BY <2>1 DEF InTime
  <2>3. /\ wake[t] \in Nat /\ wake'[t] \in Nat /\ wake["WDT"] \in Nat /\ wake'["WDT"] \in Nat
        /\ Left \in Nat /\ Left' \in Nat /\ Left <= Left' + 1
    BY <2>1, <1>b, <1>e DEF Left
  <2>4. Sleep(t)' <= Sleep(t)
    BY <2>1, <2>3, <1>b, <1>c, <1>e DEF Sleep, CliSleep
  <2>5. CASE run # Idle /\ busy # WdtWindow
    <3>1. busy' = busy + 1
      BY <2>1, <2>5
    <3>2. /\ Sleep(t) \in Nat /\ Sleep(t)' \in Nat /\ SleepOf[t] \in Nat
      BY <1>c, <1>d
    <3>3. WdtWindow + Sleep(t) <= SleepOf[t] + busy + Left
      BY <2>2 DEF Late
    <3>4. \A w, s, z, o, b, l, k \in Nat :
              w + s <= o + b + l /\ z <= s /\ l <= k + 1 => w + z <= o + (b + 1) + k
      OBVIOUS
    <3>5. Left \in Nat /\ Left' \in Nat /\ Left <= Left' + 1
      BY <2>3
    <3>6. WdtWindow + Sleep(t)' <= SleepOf[t] + (busy + 1) + Left'
      BY <3>2, <3>3, <3>4, <3>5, <2>4, <1>b
    <3>7. QED
      BY <3>1, <3>6 DEF Late
  <2>6. CASE busy = WdtWindow
    BY <2>1, <2>3, <2>6, <1>b, <1>c, <1>d DEF Late
  <2>7. CASE run = Idle
    <3>1. ~Ready(t) /\ ~Ready("WDT")
      BY <2>7, <1>e DEF Placed, Working
    <3>2. wake[t] > 0 /\ wake["WDT"] > 0
      BY <3>1, <2>3 DEF Ready
    <3>3. wake'[t] = wake[t] - 1 /\ wake'["WDT"] = wake["WDT"] - 1
      BY <2>1, <3>2, <1>e
    <3>4. pc["WDT"] = "check"
      BY <3>2 DEF Placed, Loops
    <3>5. Left' = Left - 1
      BY <2>1, <3>3, <3>4 DEF Left
    <3>6. pc[t] \in {"load", "getc"} /\ (t # "CLI" => pc[t] = "load")
      BY <3>2, <1>e DEF Placed, Loops
    <3>7. Sleep(t)' = Sleep(t) - 1
      BY <2>1, <2>3, <3>3, <3>6, <1>b, <1>e DEF Sleep, CliSleep
    <3>8. QED
      BY <2>1, <2>2, <2>3, <2>7, <3>5, <3>7, <1>b, <1>c, <1>d DEF Late
  <2>8. QED
    BY <2>5, <2>6, <2>7
<1>13. CASE Reboot
  <2>1. pc'["WDT"] = "init"
    BY <1>13, <1>e DEF Reboot, PcAtBoot
  <2>2. QED
    BY <2>1 DEF InTime
<1>14. CASE UNCHANGED healthVars
  BY <1>14 DEF healthVars, flagVars, schedVars, wdtVars, InTime, Late, Left, Sleep, CliSleep
<1>15. AiWork => Work("AI", SleepOf["AI"])
  BY DEF AiWork, SleepOf, Monitored
<1>16. BmsWork => Work("BMS", SleepOf["BMS"])
  BY DEF BmsWork, SleepOf, Monitored
<1>17. QED
  BY <1>1, <1>2, <1>3, <1>4, <1>5, <1>6, <1>7, <1>8, <1>9, <1>10, <1>11, <1>12, <1>13, <1>14,
     <1>15, <1>16 DEF HealthNext, TaskStep, Cli, Wdt

(* THEOREM AlarmsNeedLoad: whatever the periods, the length of the jobs,   *)
(* the priorities the shell sets and the phase of the delays, the          *)
(* supervisor takes a task for hung only when it has frozen, when a tick   *)
(* has split a heartbeat, or when tasks have run for all of the window     *)
(* that the missing task does not sleep.                                   *)
THEOREM AlarmsNeedLoad == HealthSpec => []AlarmNeedsLoad
<1> DEFINE IInv == Base /\ CopyIsCurrent /\ Placed /\ InTime
<1>1. HealthInit => CopyIsCurrent
  BY DEF HealthInit, CopyIsCurrent, Storing, StoreStep, PcAtBoot, Task, Monitored
<1>2. HealthInit => Placed
  BY PeriodAssumption DEF HealthInit, Placed, Clocked, Working, Ready, Loops, PcAtBoot, PrioAtBoot,
     Task, Monitored, Idle
<1>3. HealthInit => InTime
  BY DEF HealthInit, InTime, PcAtBoot, Task, Monitored
<1>4. IInv /\ [HealthNext]_healthVars => IInv'
  BY BaseInductive, CopyInductive, PlacedInductive, InTimeInductive
<1>5. IInv => AlarmNeedsLoad
  <2> SUFFICES ASSUME IInv, pc["WDT"] = "alarm", splits = 0, NEW t \in Monitored \ flags,
                      ~(t = "CLI" /\ frozen)
               PROVE  SleepOf[t] + busy >= WdtWindow
    BY DEF AlarmNeedsLoad
  <2>1. Late(t) /\ Left = 0
    BY DEF InTime, Left
  <2>2. Sleep(t) \in Nat /\ SleepOf[t] \in Nat
    BY SleepIsBounded
  <2>3. busy \in Nat /\ WdtWindow \in Nat
    BY PeriodAssumption DEF Placed, Clocked
  <2>4. QED
    BY <2>1, <2>2, <2>3 DEF Late
<1>6. QED
  BY <1>1, <1>2, <1>3, <1>4, <1>5, BaseInit, PTL DEF HealthSpec
=============================================================================
