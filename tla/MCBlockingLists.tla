--------------------------- MODULE MCBlockingLists ---------------------------
(* The instance of BlockingLists: two consumers and a producer that also consumes. *)
EXTENDS BlockingLists

Cmd(op, keys, n, timed) == [op |-> op, keys |-> keys, n |-> n, timed |-> timed]
Push(n) == Cmd("rpush", <<"k">>, n, FALSE)
Set(k) == Cmd("set", <<k>>, 0, FALSE)
Pop(k) == Cmd("lpop", <<k>>, 0, FALSE)

MCSends ==
  [c1 |-> {Cmd("blpop", <<"l">>, 0, FALSE), Cmd("blpop", <<"l", "k">>, 0, TRUE)},
   c2 |-> {Cmd("blmove", <<"k", "l">>, 0, TRUE), Cmd("blmove", <<"k", "k">>, 0, FALSE)},
   p |-> {Push(2), Set("k"), Set("l"),
          [op |-> "exec", body |-> <<Cmd("del", <<"k">>, 0, FALSE), Push(2), Pop("k"),
                                     Cmd("blpop", <<"l">>, 0, FALSE)>>]}]
MCMaxSent == [c1 |-> 2, c2 |-> 1, p |-> 2]
=============================================================================
