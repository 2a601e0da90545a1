---------------------------- MODULE FileDownload ----------------------------
(***************************************************************************)
(* What a download task promises, whatever protocol fetches the file: the  *)
(* bytes of the file reach the disk in any order, and the task is reported *)
(* complete only when every one of them is there.  A task may instead end  *)
(* in an error, with any part of the file on disk.                         *)
(*                                                                         *)
(* Module HttpTransfer implements this specification when the server       *)
(* answers range requests the way the task's pre-check found.              *)
(***************************************************************************)
EXTENDS Integers

CONSTANT FileLen            \* the length of the file on the server

VARIABLES stored,           \* the offsets that have been written to disk
          outcome           \* what the task reports

fdVars == <<stored, outcome>>

Offsets == 0 .. FileLen - 1

FDInit ==
  /\ stored = {}
  /\ outcome = "running"

\* Some bytes of the file reach the disk.  Bytes already there stay, and once
\* the file is reported complete nothing writes to it any more.
Store ==
  /\ outcome # "complete"
  /\ stored \subseteq stored'
  /\ stored' \subseteq Offsets
  /\ UNCHANGED outcome

\* The task reports the file complete.
Complete ==
  /\ outcome = "running"
  /\ stored = Offsets
  /\ outcome' = "complete"
  /\ UNCHANGED stored

\* The task gives up.
Fail ==
  /\ outcome = "running"
  /\ outcome' = "failed"
  /\ UNCHANGED stored

FDNext == Store \/ Complete \/ Fail

FDSpec == FDInit /\ [][FDNext]_fdVars
=============================================================================
