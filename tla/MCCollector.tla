----------------------------- MODULE MCCollector -----------------------------
(***************************************************************************)
(* The parts of the collector, checked together.                           *)
(*                                                                         *)
(*   channel  the listener while two shops are read                        *)
(*   douyin   the same listener while two panels are                       *)
(*   compass  a run over two shops of the modules that share the page and  *)
(*            its day, of all modules over one shop, of some of them as    *)
(*            the retry makes it, or of the operations of a past day; one  *)
(*            midnight passes and a status write may fail                  *)
(*   days     the status over two days, the second with a manual run       *)
(*                                                                         *)
(* Of the responses, r2 and r3 answer one request, as r4 and r5 do; r5 is  *)
(* too large and not all others fit the total.  r1 is of the day of the    *)
(* start, r4 of the page's default range, the others of the day before.    *)
(***************************************************************************)
EXTENDS Collector, Sequences, TLC

CONSTANTS r1, r2, r3, r4, r5, q1, q2, q3, s1, s2, operations, channel

RequestOfDef == r1 :> q1 @@ r2 :> q2 @@ r3 :> q2 @@ r4 :> q3 @@ r5 :> q3
SizeOfDef    == r1 :> 1 @@ r2 :> 1 @@ r3 :> 2 @@ r4 :> 2 @@ r5 :> 3
RangeOfDef   == r1 :> 5 @@ r2 :> 4 @@ r3 :> 4 @@ r4 :> None @@ r5 :> 4

CommandLine(ofShops, ofModules, date) == [shops |-> ofShops, modules |-> ofModules, date |-> date]

ArgumentsDef ==
  {CommandLine(<<s1, s2>>, {"operations", "channel"}, None),
   CommandLine(<<s1>>, {"operations", "channel", "douyin"}, None),
   CommandLine(<<s1>>, {"channel", "douyin"}, None),
   CommandLine(<<s1, s2>>, {"douyin"}, None),
   CommandLine(<<s1, s2>>, {"operations"}, 2)}
=============================================================================
