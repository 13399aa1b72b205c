----------------------------- MODULE BmsManager -----------------------------
(***************************************************************************)
(* The battery-management pipeline, src/bms: a measurement per channel     *)
(* through bms_measurement_device_read, bms_manager_init with              *)
(* bms_limits_validate, and bms_manager_update with                        *)
(* bms_measurements_validate, bms_protection_evaluate, bms_state_update.   *)
(*                                                                         *)
(* A float is its number and whether it is finite: NaN and the infinities  *)
(* are one class, which the code only ever tests with isfinite before it   *)
(* compares.                                                               *)
(***************************************************************************)
EXTENDS Integers

CONSTANTS Number,     \* the finite values of the model
          LimitSets   \* the configurations bms_manager_init is called with

Channel  == {"voltage", "current", "temperature"}
Validity == {"VALID", "INVALID", "NOT_AVAILABLE", "OUT_OF_RANGE"}
Float    == [n : Number, finite : {TRUE}] \cup [n : {0}, finite : {FALSE}]
Reading  == [value : Float, status : Validity]
Limits   == [min_voltage : Float, max_voltage : Float, max_current : Float,
             min_temperature : Float, max_temperature : Float]

ASSUME NumberAssumption == Number \subseteq Int /\ 0 \in Number
ASSUME LimitsAssumption == LimitSets \subseteq Limits

Protection == {"NORMAL", "OVER_VOLTAGE", "UNDER_VOLTAGE", "OVER_CURRENT",
               "OVER_TEMPERATURE", "UNDER_TEMPERATURE", "INVALID_MEASUREMENT"}
State      == {"INIT", "NORMAL", "WARNING", "FAULT"}
Fault      == {"NONE", "INVALID_MEASUREMENT", "INVALID_CONFIGURATION", "OVERVOLTAGE",
               "UNDERVOLTAGE", "OVERTEMPERATURE", "UNDERTEMPERATURE", "OVERCURRENT"}

VARIABLES measurements,  \* manager->measurements
          limits,        \* manager->limits
          protection,    \* manager->protection
          state,         \* manager->status.state
          fault,         \* manager->status.fault
          latched,       \* manager->configuration_fault_latched
          configured,    \* bms_manager_init has been called
          answered       \* history: channels whose last transaction succeeded

vars == <<measurements, limits, protection, state, fault, latched, configured, answered>>

TypeOK == /\ measurements \in [Channel -> Reading]
          /\ limits \in Limits
          /\ protection \in Protection
          /\ state \in State /\ fault \in Fault
          /\ latched \in BOOLEAN /\ configured \in BOOLEAN
          /\ answered \subseteq Channel

Zero == [n |-> 0, finite |-> TRUE]

(* The manager is a zeroed static object until main initialises it. *)
Init == /\ measurements = [ch \in Channel |-> [value |-> Zero, status |-> "VALID"]]
        /\ limits = [min_voltage |-> Zero, max_voltage |-> Zero, max_current |-> Zero,
                     min_temperature |-> Zero, max_temperature |-> Zero]
        /\ protection = "NORMAL" /\ state = "INIT" /\ fault = "NONE"
        /\ latched = FALSE /\ configured = FALSE
        /\ answered = {}

-----------------------------------------------------------------------------
(* bms_measurements_init, for one channel. *)
NotAvailable == [value |-> Zero, status |-> "NOT_AVAILABLE"]

(* bms_measurement_device_read: produced is what the transport left in the *)
(* measurement, which on an error may be an old value marked VALID.        *)
DeviceRead_TrustsStatus(ok, produced) == produced
DeviceRead(ok, produced) ==
    [produced EXCEPT !.status = IF ok /\ @ = "VALID" THEN "VALID" ELSE "INVALID"]

(* What a channel can hand to an update, with whether its transaction      *)
(* succeeded: a read, or nothing since bms_measurements_init.              *)
Acquired == {[reading |-> DeviceRead(ok, produced), ok |-> ok /\ produced.status = "VALID"] :
                 ok \in BOOLEAN, produced \in Reading}
            \cup {[reading |-> NotAvailable, ok |-> FALSE]}

(* bms_limits_validate *)
LimitsValid(l) ==
    /\ \A field \in DOMAIN l : l[field].finite
    /\ l.min_voltage.n < l.max_voltage.n
    /\ l.min_temperature.n < l.max_temperature.n
    /\ l.max_current.n > 0

(* bms_measurements_validate *)
MeasurementsValid(m) == \A ch \in Channel : m[ch].status = "VALID" /\ m[ch].value.finite

Magnitude_Signed(i) == i
Magnitude(i) == IF i < 0 THEN -i ELSE i

(* bms_protection_evaluate: the first condition in the code's order.       *)
Evaluate(m, l) ==
    LET v == m["voltage"].value.n
        i == Magnitude(m["current"].value.n)
        t == m["temperature"].value.n
    IN  IF ~MeasurementsValid(m)        THEN "INVALID_MEASUREMENT"
        ELSE IF v > l.max_voltage.n     THEN "OVER_VOLTAGE"
        ELSE IF v < l.min_voltage.n     THEN "UNDER_VOLTAGE"
        ELSE IF i > l.max_current.n     THEN "OVER_CURRENT"
        ELSE IF t > l.max_temperature.n THEN "OVER_TEMPERATURE"
        ELSE IF t < l.min_temperature.n THEN "UNDER_TEMPERATURE"
        ELSE "NORMAL"

(* bms_state_update, as a function of the protection status. *)
FaultOf_Swapped(p) == CASE p = "NORMAL" -> "NONE"
                       [] p = "OVER_TEMPERATURE" -> "UNDERTEMPERATURE"
                       [] OTHER -> "INVALID_MEASUREMENT"
FaultOf(p) == CASE p = "NORMAL"            -> "NONE"
                [] p = "OVER_VOLTAGE"      -> "OVERVOLTAGE"
                [] p = "UNDER_VOLTAGE"     -> "UNDERVOLTAGE"
                [] p = "OVER_CURRENT"      -> "OVERCURRENT"
                [] p = "OVER_TEMPERATURE"  -> "OVERTEMPERATURE"
                [] p = "UNDER_TEMPERATURE" -> "UNDERTEMPERATURE"
                [] OTHER                   -> "INVALID_MEASUREMENT"

StateUpdate(p) == /\ state' = IF p = "NORMAL" THEN "NORMAL" ELSE "FAULT"
                  /\ fault' = FaultOf(p)

-----------------------------------------------------------------------------
(* bms_manager_init, at start and whenever the manager is initialised anew.*)
ManagerInit(l) ==
    /\ measurements' = [ch \in Channel |-> NotAvailable]
    /\ limits' = l
    /\ protection' = "INVALID_MEASUREMENT"
    /\ latched' = ~LimitsValid(l)
    /\ IF LimitsValid(l)
       THEN state' = "INIT" /\ fault' = "NONE"
       ELSE state' = "FAULT" /\ fault' = "INVALID_CONFIGURATION"
    /\ configured' = TRUE
    /\ answered' = {}

(* bms_manager_update with one sample of the three channels. *)
ManagerUpdate_Unlatched(sample) ==
    /\ configured
    /\ measurements' = [ch \in Channel |-> sample[ch].reading]
    /\ answered' = {ch \in Channel : sample[ch].ok}
    /\ protection' = Evaluate(measurements', limits)
    /\ StateUpdate(protection')
    /\ UNCHANGED <<limits, latched, configured>>
ManagerUpdate(sample) ==
    /\ configured
    /\ measurements' = [ch \in Channel |-> sample[ch].reading]
    /\ answered' = {ch \in Channel : sample[ch].ok}
    /\ IF latched
       THEN /\ protection' = "INVALID_MEASUREMENT"
            /\ state' = "FAULT" /\ fault' = "INVALID_CONFIGURATION"
       ELSE /\ protection' = Evaluate(measurements', limits)
            /\ StateUpdate(protection')
    /\ UNCHANGED <<limits, latched, configured>>

Next == \/ \E l \in LimitSets : ManagerInit(l)
        \/ \E sample \in [Channel -> Acquired] : ManagerUpdate(sample)

Spec == Init /\ [][Next]_vars

-----------------------------------------------------------------------------
(* The conditions that hold of a sample, all of them (requirements         *)
(* BMS-REQ-006 to 014: limits are inclusive, current by magnitude).        *)
InRange(x, lo, hi) == lo <= x /\ x <= hi
SoundFor(m, l) ==
    /\ MeasurementsValid(m)
    /\ InRange(m["voltage"].value.n, l.min_voltage.n, l.max_voltage.n)
    /\ InRange(m["current"].value.n, -l.max_current.n, l.max_current.n)
    /\ InRange(m["temperature"].value.n, l.min_temperature.n, l.max_temperature.n)
Sound == SoundFor(measurements, limits)

Present(f) ==
    LET n(ch) == measurements[ch].value.n
    IN  CASE f = "OVERVOLTAGE"      -> n("voltage") > limits.max_voltage.n
          [] f = "UNDERVOLTAGE"     -> n("voltage") < limits.min_voltage.n
          [] f = "OVERCURRENT"      -> n("current") \notin
                                         -limits.max_current.n .. limits.max_current.n
          [] f = "OVERTEMPERATURE"  -> n("temperature") > limits.max_temperature.n
          [] f = "UNDERTEMPERATURE" -> n("temperature") < limits.min_temperature.n
          [] OTHER                  -> FALSE

(* The manager implements the fail-safe promise of BmsSafety through every *)
(* sequence of initialisations and updates: NORMAL exactly for a sound     *)
(* sample under an accepted configuration, FAULT otherwise.                *)
Safety == INSTANCE BmsSafety WITH accepted <- configured /\ LimitsValid(limits),
                                  safe     <- state # "INIT" /\ Sound,
                                  mode     <- state
ImplementsSafety == Safety!Spec

(* The fault the manager names is really there: with several conditions at *)
(* once the one reported is never one that does not hold (bms_protection.c *)
(* and the switch of bms_state.c agree), and a range fault is never read   *)
(* out of readings that are not to be trusted.                             *)
NamedFaultIsPresent ==
    /\ fault = "INVALID_MEASUREMENT" => ~MeasurementsValid(measurements)
    /\ fault = "INVALID_CONFIGURATION" => ~LimitsValid(limits)
    /\ fault \notin {"NONE", "INVALID_MEASUREMENT", "INVALID_CONFIGURATION"} =>
           MeasurementsValid(measurements) /\ Present(fault)

(* A failed transaction is never taken for a measurement (BMS-REQ-040): a  *)
(* system in NORMAL has an answer from every channel in its last sample.   *)
NormalIsAnswered == state = "NORMAL" => answered = Channel

(* An invalid configuration is latched (bms_manager.h:27): only a fresh    *)
(* initialisation with valid limits ends the configuration fault.          *)
LatchHolds == [][fault = "INVALID_CONFIGURATION" /\ fault' # fault
                    => LimitsValid(limits') /\ state' = "INIT"]_vars
=============================================================================
