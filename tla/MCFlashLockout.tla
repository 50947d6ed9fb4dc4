--------------------------- MODULE MCFlashLockout ----------------------------
(***************************************************************************)
(* FlashLockout with the two callers of the flash driver: the OTA session  *)
(* and the setting of the USB mode, of which only the first asks the       *)
(* resource arbiter.                                                       *)
(***************************************************************************)
EXTENDS FlashLockout

CONSTANTS ota, usb

MCWriters == {ota, usb}
MCArbitrated == {ota}
=============================================================================
