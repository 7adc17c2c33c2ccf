---------------------------- MODULE MCSpeakerStore ----------------------------
(* Two names, one satellite, two threads that differ in nothing, three       *)
(* samples: one enrolled, and two automatic ones in flight over a cap of one. *)
EXTENDS SpeakerStore, TLC

CONSTANTS alice, bob, kitchen

Saved(n, source, mic) == [name |-> n, source |-> source, mic |-> mic]

\* Uploads, normal and whispered, and a sample from the postbox.
MCRequests ==
  {[name |-> alice, style |-> "normal", mic |-> kitchen, schedules |-> TRUE],
   [name |-> alice, style |-> "whisper", mic |-> NoMic, schedules |-> TRUE],
   [name |-> bob, style |-> "normal", mic |-> NoMic, schedules |-> FALSE]}

\* Backups: one sample, and two speakers of one sample each.
MCArchives ==
  {<<Saved(alice, "user", NoMic)>>,
   <<Saved(alice, "auto", kitchen), Saved(bob, "user", NoMic)>>}

\* The threads of auto-enrolments are interchangeable.
MCSymmetry == Permutations(Threads)
=============================================================================
