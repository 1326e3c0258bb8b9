------------------------------ MODULE MotorWire ------------------------------
(***************************************************************************)
(* The wire contract shared by the STM32 firmware and the QNX controller   *)
(* (motor_wire.h): what a SET_CONFIG payload and a command frame carry,    *)
(* and which answers a frame header can bring back.  Bytes are abstracted: *)
(* a frame is a record, a CRC is the fact that it matches.                 *)
(***************************************************************************)
EXTENDS Integers

CONSTANTS
  Commands,   \* the command frames that can reach the receive buffer
  NoCmd       \* an empty command slot, or a receive buffer without CMDR magic

MaxRows == 200
MaxRate == 100 * 1000
RateBand == 100..MaxRate
ImuBand == 10..1000

\* config_payload_t; 0 in rate or imu is the "leave alone" sentinel.
Payload == [rows : Nat, rate : Nat, imu : Nat, run : Nat, source : Nat]

\* cmd_header_t and payload, and whether the CRC and the schema version match.
CommandFrame == [seq : Nat, op : {"SET_CONFIG", "PING", "OTHER"},
                 crcOk : BOOLEAN, schemaOk : BOOLEAN, payload : Payload]

\* The ACK/NACK bits of frame_header_t.flags; "none" before any command.
Answers == {"none", "ok", "crc", "ver", "cmd", "range"}

\* A data frame: header fields that the protocol reads, rows counted only.
\* applied is the one-shot CONFIG_APPLIED bit, ackSeq the _reserved field.
Frame == [seq : Nat, rows : Nat, ack : Answers, applied : BOOLEAN, ackSeq : Nat]

ASSUME CommandsAssumption == Commands \subseteq CommandFrame
ASSUME NoCmdAssumption == NoCmd \notin Commands

\* The range check of SET_CONFIG: every field, before anything is applied.
InRange(p) ==
  /\ p.rows \in 1..MaxRows
  /\ p.source = 1
  /\ p.run \in {0, 1}
  /\ p.rate = 0 \/ p.rate \in RateBand
  /\ p.imu = 0 \/ p.imu \in ImuBand
=============================================================================
