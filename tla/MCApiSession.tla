---------------------------- MODULE MCApiSession ----------------------------
(***************************************************************************)
(* ApiSession for TLC: two requests after HELLO, or a first one before it. *)
(***************************************************************************)
EXTENDS ApiSession

Plain(kind) == [type |-> kind, right |-> TRUE, chunks |-> << >>]
WrongHello == [Plain("HELLO") EXCEPT !.right = FALSE]
StoreFile(sizes) == [Plain("STORE FILE") EXCEPT !.chunks = sizes]

Asked == { Plain(k) : k \in {"HELLO", "PING", "LOAD FILE"} }

TwoRequests ==
  { <<Plain("HELLO"), a, b>> : a \in Asked, b \in Asked \cup {WrongHello} }
    \cup { <<Plain("HELLO"), StoreFile(sizes)>> : sizes \in {<<2, 1>>, <<0>>, <<2, 2>>} }
    \cup { <<Plain("HELLO"), StoreFile(<<1>>), a>> :
             a \in {Plain("PING"), StoreFile(<<2, 1>>)} }
    \cup { <<Plain(a), Plain("HELLO")>> : a \in Type }
    \cup { <<WrongHello, Plain("HELLO")>> }
    \cup { <<Plain("HELLO"), Plain(a)>> : a \in {"CONNECT PEER", "PEER INFO"} }

=============================================================================
