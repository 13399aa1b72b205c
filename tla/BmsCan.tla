------------------------------- MODULE BmsCan -------------------------------
(***************************************************************************)
(* The CAN codec of the battery manager, src/bms/bms_can.c, between two    *)
(* nodes that run it: a sender whose manager (BmsManager) goes through its *)
(* life and publishes frames of its last sample and status, and a receiver *)
(* that decodes what it finds on the bus.                                  *)
(*                                                                         *)
(* A number counts halves of its channel's unit on the wire (0.01 V, 1 mA, *)
(* 0.1 degrees), so rounding is exact; the error of the float products is  *)
(* not modelled.  A conversion out of the range of int32_t, and a signed   *)
(* sum beyond it, are undefined: either build's outcome may come out.      *)
(***************************************************************************)
EXTENDS BmsManager

CONSTANTS Samples,      \* the samples the sender's task acquires
          Ids,          \* the identifiers bms_can_set_base_id is called with
          OtherFrames,  \* frames of other nodes, another layout on any identifier
          IntMax        \* the largest int32_t

Node == {"sender", "receiver"}

IntMin    == -IntMax - 1
Word      == 0 .. 65535
MaxId     == 536870911   \* 0x1FFFFFFF
DefaultId == 256         \* 0x100
OtherCode == "other"     \* a byte that is no enumerator

Frame  == [id : Nat, dlc : 0 .. 8, words : [Channel -> Word],
           state : State \cup {OtherCode}, fault : Fault \cup {OtherCode}]

ASSUME SamplesAssumption == Samples \subseteq [Channel -> Acquired]
ASSUME IdsAssumption     == Ids \subseteq Nat
ASSUME FramesAssumption  ==
    /\ OtherFrames \subseteq Frame
    /\ \A f \in OtherFrames : f.dlc # 8 \/ OtherCode \in {f.state, f.fault}
ASSUME IntAssumption     == IntMax \in Nat /\ IntMax > 65535 + 1000

VARIABLES baseId,    \* bms_can_base_id of each node
          wire,      \* the frame on the bus, {} before the first
          source,    \* history: the report that frame was built from, {} if it was not
          received,  \* the receiver's measurements
          status,    \* the receiver's bms_state_status_t
          believed   \* history: the report behind received and status, {} for none

senderVars == <<measurements, limits, protection, state, fault, latched, configured, answered>>
heardVars  == <<received, status, believed>>
canVars    == <<senderVars, baseId, wire, source, heardVars>>

CanInit == /\ Init
           /\ baseId = [n \in Node |-> DefaultId]
           /\ wire = {} /\ source = {}
           /\ received = [ch \in Channel |-> NotAvailable]
           /\ status = [state |-> "INIT", fault |-> "NONE"]
           /\ believed = {}

-----------------------------------------------------------------------------
(* round_to_int: a half is added or subtracted and the sum truncated.      *)
Round_AddsHalf(n) == IF n + 1 >= 0 THEN (n + 1) \div 2 ELSE -((-n - 1) \div 2)
Round(n) == IF n >= 0 THEN (n + 1) \div 2 ELSE -((-n + 1) \div 2)

ToInt(x) == IF ~x.finite THEN {IntMin, 0, IntMax}
            ELSE IF Round(x.n) > IntMax THEN {IntMin, IntMax}
            ELSE IF Round(x.n) < IntMin THEN {IntMin}
            ELSE {Round(x.n)}

(* clamp_int32 *)
Clamp(n, lo, hi) == IF n < lo THEN lo ELSE IF n > hi THEN hi ELSE n

(* t += TEMPERATURE_OFFSET, as a machine adds or as a compiler may assume. *)
Offset(t) == IF t + 1000 <= IntMax THEN {t + 1000}
             ELSE {t + 1000, t + 1000 + 2 * IntMin}

(* The two bytes of a channel in bms_can_build_frame. *)
Encoded(ch, x) ==
    CASE ch = "voltage"     -> {Clamp(v, 0, 65535) : v \in ToInt(x)}
      [] ch = "current"     -> {Clamp(i, -32767, 32767) % 65536 : i \in ToInt(x)}
      [] ch = "temperature" -> {Clamp(t, 0, 65535) : t \in UNION {Offset(n) : n \in ToInt(x)}}

(* ... and back in bms_can_decode_frame, which marks every channel VALID.  *)
Units(ch, w) == CASE ch = "voltage"     -> w
                  [] ch = "current"     -> IF w < 32768 THEN w ELSE w - 65536
                  [] ch = "temperature" -> w - 1000

Decoded(words) ==
    [ch \in Channel |-> [value  |-> [n |-> 2 * Units(ch, words[ch]), finite |-> TRUE],
                         status |-> "VALID"]]

(* bms_can_frame_is_valid *)
StateIsValid(byte) == byte \in State
FaultIsValid(byte) == byte \in Fault

FrameIsValid_AnyLength(n, f) ==
    f.id = baseId[n] /\ StateIsValid(f.state) /\ FaultIsValid(f.fault)
FrameIsValid(n, f) ==
    /\ f.dlc = 8
    /\ f.id = baseId[n]
    /\ StateIsValid(f.state)
    /\ FaultIsValid(f.fault)

-----------------------------------------------------------------------------
(* The sender's manager goes on; nothing of it is on the bus yet. *)
SenderSteps == /\ \/ \E l \in LimitSets : ManagerInit(l)
                  \/ \E sample \in Samples : ManagerUpdate(sample)
               /\ UNCHANGED <<baseId, wire, source, heardVars>>

(* bms_can_set_base_id, called on a node. *)
SetBaseId(n, id) == /\ id # 0 /\ id <= MaxId
                    /\ baseId' = [baseId EXCEPT ![n] = id]
                    /\ UNCHANGED <<senderVars, wire, source, heardVars>>

(* bms_can_build_frame, and the frame is sent over the one before it, that *)
(* the receiver may or may not have read.                                  *)
Publish ==
    /\ configured
    /\ \E voltage \in Encoded("voltage", measurements["voltage"].value),
          current \in Encoded("current", measurements["current"].value),
          temperature \in Encoded("temperature", measurements["temperature"].value) :
          wire' = {[id    |-> baseId["sender"],
                    dlc   |-> 8,
                    words |-> [ch \in Channel |-> CASE ch = "voltage" -> voltage
                                                    [] ch = "current" -> current
                                                    [] OTHER          -> temperature],
                    state |-> state,
                    fault |-> fault]}
    /\ source' = {[measurements |-> measurements, limits |-> limits, state |-> state]}
    /\ UNCHANGED <<senderVars, baseId, heardVars>>

(* Another node sends. *)
OtherSends == /\ wire' \in {{f} : f \in OtherFrames}
              /\ source' = {}
              /\ UNCHANGED <<senderVars, baseId, heardVars>>

(* bms_can_decode_frame on the receiver: a frame it takes replaces all it  *)
(* knows, a frame it refuses leaves the old data as they are.              *)
Receive == \E f \in wire :
    /\ FrameIsValid("receiver", f)
    /\ received' = Decoded(f.words)
    /\ status' = [state |-> f.state, fault |-> f.fault]
    /\ believed' = source
    /\ UNCHANGED <<senderVars, baseId, wire, source>>

CanNext == \/ SenderSteps \/ Publish \/ OtherSends \/ Receive
           \/ \E n \in Node, id \in Ids : SetBaseId(n, id)

CanSpec == CanInit /\ [][CanNext]_canVars

-----------------------------------------------------------------------------
(* The range of a channel on the wire, in the halves a value is counted in,*)
(* and the limits that can be expressed there.                             *)
Least(ch)    == CASE ch = "voltage" -> 0 [] ch = "current" -> -65534 [] OTHER -> -2000
Greatest(ch) == CASE ch = "current" -> 65534 [] ch = "voltage" -> 131070 [] OTHER -> 129070

OnWire(ch, n) == n % 2 = 0 /\ InRange(n, Least(ch), Greatest(ch))
Expressible(l) ==
    /\ OnWire("voltage", l.min_voltage.n) /\ OnWire("voltage", l.max_voltage.n)
    /\ OnWire("current", l.max_current.n)
    /\ OnWire("temperature", l.min_temperature.n) /\ OnWire("temperature", l.max_temperature.n)

(* A NORMAL the receiver holds was a manager's, and the values it holds    *)
(* with it are themselves sound for the limits that manager judged by,     *)
(* whatever was rounded, saturated, lost, misaddressed or sent by others:  *)
(* a receiver that checks again never finds a NORMAL to be out of range.   *)
NormalIsFounded ==
    status.state = "NORMAL" =>
        \E report \in believed :
            /\ report.state = "NORMAL"
            /\ Expressible(report.limits) => SoundFor(received, report.limits)

(* What arrives of a finite reading is the nearest value the wire has: off *)
(* by at most half a unit inside the range of the channel, and the end of  *)
(* the range beyond it (tests/unit/test_bms_can.c:290), as long as the     *)
(* conversion to int32_t and the offset are defined.                       *)
Convertible(n) == -2 * IntMax <= n /\ n <= 2 * (IntMax - 1000)
ArrivesNearest ==
    \A report \in believed :
        \A ch \in Channel :
            LET sent == report.measurements[ch].value
                got  == received[ch].value.n
            IN  sent.finite /\ Convertible(sent.n) =>
                    got - Clamp(sent.n, Least(ch), Greatest(ch)) \in -1 .. 1
=============================================================================
