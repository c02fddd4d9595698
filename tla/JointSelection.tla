--------------------------- MODULE JointSelection ---------------------------
(***************************************************************************)
(* From the configuration to the joints of a session: enumerate_joints()   *)
(* makes a handle of every configured device that has a factory and is on  *)
(* the bus, and pick_joints() reads the operator's line of indices.        *)
(*                                                                         *)
(* A device is [driver, mode, present].  A token is what was typed between *)
(* two commas, [kind, index]: nothing ("blank"), a number ("number"), text *)
(* that only begins with one ("prefix", as '3abc' or '1 2'), or text in    *)
(* which no number that fits an int comes first ("word").                  *)
(***************************************************************************)
EXTENDS Selecting, SequencesExt

Drivers == {"MT_Device", "CapitanDrv"}

NamedModes == {"OP_PP", "OP_PV", "OP_TQ", "OP_PVT", "OP_HOM", "OP_CSP", "OP_CSV", "OP_CST"}

(* A device that is configured without a mode gets its driver's.           *)
ModeName(device) ==
  IF device.mode # "" THEN device.mode
  ELSE IF device.driver = "MT_Device" THEN "OP_PVT" ELSE "OP_CSP"

(* A handle keeps the mode code it was made with when its name is unknown. *)
ModeCode(device) ==
  IF ModeName(device) \in NamedModes THEN ModeName(device) ELSE "OP_HOM"

(* Only impedance control feeds the watchdog of an MT_Device.              *)
SelectableMyActuator(device) == ModeName(device) = "OP_PVT"

SelectableNovanta(device) == ModeName(device) \in NamedModes

(* The device stands for the name and the alias of its handle.             *)
Handle(device) ==
  [device |-> device, code |-> ModeCode(device),
   selectable |-> IF device.driver = "MT_Device" THEN SelectableMyActuator(device)
                  ELSE SelectableNovanta(device)]

(* The configured order is the order of the indices.                       *)
EnumerateJoints(devices) ==
  LET created == {d \in Range(devices) : d.driver \in Drivers /\ d.present}
      found == Chosen(devices, created)
  IN  [i \in DOMAIN found |-> Handle(found[i])]

-----------------------------------------------------------------------------
Blank(token) == token.kind = "blank"

(* std::stoi reads the number with which a text begins and leaves the      *)
(* rest; it throws where there is none.                                    *)
StoiReads(token) == token.kind \in {"number", "prefix"}

(* Mutated form: the line may name a joint twice.                          *)
UsableTwice(joints, picks, token) ==
  /\ StoiReads(token)
  /\ token.index \in 0..(Len(joints) - 1)
  /\ joints[token.index + 1].selectable

Usable(joints, picks, token) ==
  /\ StoiReads(token)
  /\ token.index \in 0..(Len(joints) - 1)
  /\ joints[token.index + 1].selectable
  /\ ~Contains(picks, token.index)

(* flush_token: the line goes on being read after a token it refuses.      *)
FlushToken(joints, read, token) ==
  IF Blank(token) THEN read
  ELSE IF Usable(joints, read.picks, token)
       THEN [read EXCEPT !.picks = Append(@, token.index)]
       ELSE [read EXCEPT !.bad = TRUE]

PickedJoints(joints, line) ==
  LET read[i \in 0..Len(line)] ==
        IF i = 0 THEN [picks |-> <<>>, bad |-> FALSE]
        ELSE FlushToken(joints, read[i - 1], line[i])
      all == read[Len(line)]
  IN  [answer |-> IF all.bad \/ all.picks = <<>> THEN "again" ELSE "picked",
       picks |-> all.picks]

-----------------------------------------------------------------------------
Typed(line) == Chosen(line, {token \in Range(line) : ~Blank(token)})

(* A joint is driven in the mode that its device has in the configuration, *)
(* or else in its driver's, and an MT_Device in impedance control alone.   *)
DrivenAsConfigured(joint) ==
  /\ joint.selectable
  /\ joint.code = ModeName(joint.device)
  /\ joint.device.driver = "MT_Device" => joint.code = "OP_PVT"

(* A selection is what the operator typed: each token of the line is a     *)
(* number or begins with one (std::stoi takes '3abc' for 3), and these     *)
(* numbers, in their order, are the joints, each one once and each driven  *)
(* as its device is configured.                                            *)
SelectionAsTyped(joints, line) ==
  LET r == PickedJoints(joints, line)
      typed == Typed(line)
  IN  r.answer = "picked" =>
        /\ \A i \in DOMAIN typed : StoiReads(typed[i])
        /\ r.picks = [i \in DOMAIN typed |-> typed[i].index]
        /\ IsInjective(r.picks)
        /\ \A i \in DOMAIN r.picks : DrivenAsConfigured(joints[r.picks[i] + 1])

(* A line of numbers that name distinct selectable joints is not asked for *)
(* again.                                                                  *)
GoodLineTaken(joints, line) ==
  LET typed == Typed(line)
      good == {i - 1 : i \in {k \in DOMAIN joints : joints[k].selectable}}
  IN  /\ typed # <<>>
      /\ \A i \in DOMAIN typed : typed[i].kind = "number" /\ typed[i].index \in good
      /\ IsInjective([i \in DOMAIN typed |-> typed[i].index])
      => PickedJoints(joints, line).answer = "picked"
=============================================================================
