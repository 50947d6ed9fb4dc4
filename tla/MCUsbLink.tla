------------------------------ MODULE MCUsbLink ------------------------------
(* One message of each kind: a command, a query, a query whose reply does  *)
(* not fit, a message that does not fit, and the ones of scpi_usb_control. *)
EXTENDS UsbLink

Msg(size, reply_, effect) == [size |-> size, reply |-> reply_, effect |-> effect]

MCMessages ==
  {Msg(1, 0, "none"), Msg(2, 2, "none"), Msg(1, 3, "none"), Msg(3, 1, "none"),
   Msg(1, 1, "cdc"), Msg(1, 1, "usbtmc"), Msg(1, 1, "boot")}
=============================================================================
