------------------------ MODULE MCAppointmentBooking ------------------------
(***************************************************************************)
(* AppointmentBooking for TLC: constants are given in the configurations.  *)
(***************************************************************************)
EXTENDS AppointmentBooking, TLC

Symmetry ==
  Permutations(Client) \cup Permutations(Slot) \cup Permutations(Appointment)

\* What follows an overtaking write is looked at by the other instances.
NotOvertaken == ~overtaken
=============================================================================
