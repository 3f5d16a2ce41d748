----------------------------- MODULE MCFraming -----------------------------
(* Framing with short packets of line ends and other bytes, packets that   *)
(* hold the mark or character codes, and commands of up to three words,    *)
(* some with quotes, a byte 0 or more spaces than needed.                  *)
EXTENDS Framing

UpTo(S, n) == UNION {[1 .. k -> S] : k \in 1 .. n}

x == 120
a == 97

MCPayloads ==
  {<<>>} \cup UpTo({CR, LF, x}, 2)
  \cup { <<CR, LF, CR>>, <<LF, CR, LF>>, Mark, <<x>> \o Mark, Mark \o <<x>>,
         <<x>> \o Mark \o <<x>>, <<x>> \o Mark \o <<x, LF>>, <<x, x>> \o Mark \o <<x>>,
         <<CR, LF>> \o Mark \o <<x>>, <<x, x, x, x>> \o <<CR, LF>>,
         MarkCode, <<x>> \o Code(CR), <<38, 35>>, <<x, 38, 35, 49>>,
         <<x, x, x, x, x, x, 38, 35, 49>>, <<38>>, <<38, CR>> }
  \cup { <<64, 33, x>> \o w : w \in UpTo({a, Space}, 4) }
  \cup { <<64, 33, Space, a, a>>, <<64, 33, x, Space, a, Space, a, a>>,
         <<64, 33, x, Space, Quote, a, Quote, Space, a, a>>,
         <<64, 33, x, Space, Quote, a, Space, a, Quote>>,
         <<64, 33, x, 0, a, Space, a, a>>, <<64, 33, x, Space, 0, a, Space, a>> }
=============================================================================
