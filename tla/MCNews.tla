------------------------------- MODULE MCNews --------------------------------
(* News for TLC.                                                             *)
EXTENDS News, TLC

(* Two channels of up to four messages, the third of them without a text; a  *)
(* seed of two and batches of two, so that both limits are passed.           *)
Polled == <<"a", "b">>

(* Two feeds, the second with an undated article, a post of telegram and a    *)
(* report of FactSet over two weeks of three units, of which the job takes one. *)
Sources == <<"f", "g">>
Entries == {[source |-> "rss", channel |-> "g", id |-> 1, dated |-> FALSE]}
Telegrams == {[source |-> "telegram", channel |-> "c", id |-> 1, dated |-> TRUE]}
FactSet == {<<"factset", "site", 1>>}

(* Three stocks, one of them with a longer name than the others, and a term; a *)
(* window of two units of time, of which Seoul is one ahead; two issues in all *)
(* and one of a layer, so that both limits are passed.                         *)
Named == {"lg", "sk", "lgchem"}
Lengths == [lg |-> 2, sk |-> 2, lgchem |-> 4]
ListedIn == [lg |-> "KR", lgchem |-> "KR", sk |-> "US"]
Texts == [crash |-> 1, lg |-> 2, lgchem |-> 3, sk |-> 4]
Lexicon == <<"crash">>
Weights == [crash |-> 7]
Contents == {[stocks |-> {"lg", "lgchem"}, terms |-> {}], [stocks |-> {"lg", "sk"}, terms |-> {}],
             [stocks |-> {}, terms |-> {"crash"}]}
Collectable ==
  {[channel |-> "c", ts |-> t, stocks |-> x.stocks, terms |-> x.terms] : t \in 1..3, x \in Contents}
  \cup {[channel |-> "d", ts |-> 2, stocks |-> {"lg", "lgchem"}, terms |-> {}]}
=============================================================================
