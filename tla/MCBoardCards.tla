---------------------------- MODULE MCBoardCards ----------------------------
(***************************************************************************)
(* Four instances of BoardCards side by side, over the same variables: one *)
(* in which the posting is taken down and put back, with the               *)
(* closed-posting sweep and the digest; one in which two Gmail sweeps run  *)
(* at a time and the user answers their suggestions; one in which mail is  *)
(* late and grows older than the windows a sweep looks back over (nothing  *)
(* is suggested there); and one in which the alert of a card that gets     *)
(* mail fails and releases it, under two sweeps.                           *)
(***************************************************************************)
EXTENDS BoardCards

CONSTANTS c1, hourly, manual

OneCard == {c1}
HourlyAndManual == {hourly, manual}
AllStatuses == {"applied", "dismissed", "interested"}
Second == {2}

VARIABLE part

Closures == INSTANCE BoardCards WITH
    Statuses <- {"applied", "dismissed"}, Mailers <- {}, Inbox <- 0, Rejections <- {},
    Overlap <- 0, KeepDismissed <- 1, MaxLag <- 0, MaxAge <- 0, MaxReleases <- 0

Answered == INSTANCE BoardCards WITH
    Statuses <- {"interested"}, WithSweep <- FALSE, MaxLag <- 0, MaxAge <- 0,
    MaxReleases <- 0, MaxFlips <- 0, MaxMishaps <- 1

Windows == INSTANCE BoardCards WITH
    Statuses <- {"applied"}, Mailers <- {hourly}, WithSweep <- FALSE, Rejections <- {},
    MaxReleases <- 0, MaxFlips <- 0, MaxMishaps <- 1

Released == INSTANCE BoardCards WITH
    Statuses <- {"interested"}, WithSweep <- FALSE, Inbox <- 1, Rejections <- {},
    MaxLag <- 0, MaxAge <- 0, MaxFlips <- 0, MaxMishaps <- 1

PartInit ==
    \/ part = "closures" /\ Closures!Init
    \/ part = "answered" /\ Answered!Init
    \/ part = "windows" /\ Windows!Init
    \/ part = "released" /\ Released!Init

PartNext ==
    /\ UNCHANGED part
    /\ \/ part = "closures" /\ Closures!Next
       \/ part = "answered" /\ Answered!Next
       \/ part = "windows" /\ Windows!Next
       \/ part = "released" /\ Released!Next

PartSpec ==
    /\ PartInit /\ [][PartNext]_<<vars, part>>
    /\ part = "closures" => Closures!Fairness
=============================================================================
