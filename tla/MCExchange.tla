------------------------------ MODULE MCExchange ------------------------------
(***************************************************************************)
(* Three calls, answered in two, three and two frames of two bytes.        *)
(***************************************************************************)
EXTENDS UsbExchange

MCAnswerLength == <<3, 5, 4>>

===============================================================================
