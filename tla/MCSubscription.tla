--------------------------- MODULE MCSubscription ---------------------------
(* Four digits to the base four.  Difficulty one leaves two digits of      *)
(* headroom, one of them taken by the shift, as in the code; an eighth no  *)
(* longer fits, and a sixty-fourth is capped.  Every session of up to      *)
(* three lines of every kind, and work before and after every change from  *)
(* one difficulty to another.                                              *)
EXTENDS SubscriptionFeed

CONSTANTS sub, garbage

MCIds == {sub}
MCNoise == {garbage}

MCDifficulties == {<<0, 1>>, <<1, 1>>, <<2, 1>>, <<20, 1>>,
                   <<3, 2>>, <<1, 4>>, <<1, 8>>, <<1, 64>>}

MCCalls == {Difficulty(d) : d \in MCDifficulties}
             \union {Subscribed(sub), Notify, Malformed}

AnyLine == {Difficulty(<<1, 1>>), Subscribed(sub), Notify, Malformed, garbage, Blank}

MCSessions ==
  UNION {[1 .. n -> AnyLine] : n \in 1 .. 3}
    \union {<<Subscribed(sub), Difficulty(d), Notify, Difficulty(e), Notify>> :
              d \in MCDifficulties, e \in MCDifficulties}

=============================================================================
