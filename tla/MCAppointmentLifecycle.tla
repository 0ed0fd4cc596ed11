----------------------- MODULE MCAppointmentLifecycle -----------------------
(* An instance of AppointmentLifecycle for TLC.                            *)
EXTENDS AppointmentLifecycle

CONSTANTS r1, r2, j1

MCRequest == {r1, r2}
MCJanitor == {j1}
=============================================================================
