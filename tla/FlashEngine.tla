---------------------------- MODULE FlashEngine ----------------------------
(***************************************************************************)
(* The step machine of src/flash_engine.cpp: which request a step emits,   *)
(* where emitting it leaves the engine, and where a reply takes it. The    *)
(* engine moves on when it emits, before the ECU has answered. The length  *)
(* of a block, and max_block_ which limits it, are left out.               *)
(***************************************************************************)
Steps == {"Idle", "RequestErase", "EraseInProgress", "RequestDownload", "TransferData",
          "RequestTransferExit", "VerifyChecksum", "Done", "Error"}

(* nextRequest(): the request emitted; in every other step it is empty. *)
Emits ==
  [Idle |-> "Erase", RequestDownload |-> "Download", TransferData |-> "Block",
   RequestTransferExit |-> "Exit", VerifyChecksum |-> "Verify"]

AfterRequest(step) ==
  CASE step = "Idle"                -> "RequestErase"
    [] step = "RequestDownload"     -> "TransferData"
    [] step = "RequestTransferExit" -> "VerifyChecksum"
    [] step = "VerifyChecksum"      -> "Done"
    [] OTHER                        -> step

(* handleResponse() on a positive reply of the class "service", after two   *)
(* forms of it with a slip: one that takes any reply for the checksum's,    *)
(* one that does not leave RequestErase.                                    *)
AfterPositiveUnchecked(step, service) ==
  CASE step = "RequestErase" /\ service = "Routine" -> "RequestDownload"
    [] step = "RequestDownload"                     -> "TransferData"
    [] step = "RequestTransferExit"                 -> "VerifyChecksum"
    [] step = "VerifyChecksum"                      -> "Done"
    [] OTHER                                        -> step
AfterPositiveNoErase(step, service) ==
  CASE step = "RequestDownload"                       -> "TransferData"
    [] step = "RequestTransferExit"                   -> "VerifyChecksum"
    [] step = "VerifyChecksum" /\ service = "Routine" -> "Done"
    [] OTHER                                          -> step
AfterPositive(step, service) ==
  CASE step = "RequestErase" /\ service = "Routine"   -> "RequestDownload"
    [] step = "RequestDownload"                       -> "TransferData"
    [] step = "RequestTransferExit"                   -> "VerifyChecksum"
    [] step = "VerifyChecksum" /\ service = "Routine" -> "Done"
    [] OTHER                                          -> step

(* finishTransfer() *)
FinishTransfer(step) == IF step = "TransferData" THEN "RequestTransferExit" ELSE step
=============================================================================
