--------------------------- MODULE MCOrderScraping ---------------------------
(***************************************************************************)
(* The job of the order collection and its two crawls, checked together.   *)
(*                                                                         *)
(*   jobs   three runs of the job                                          *)
(*   crawl  two douyin shops.  The first had five orders yesterday, three  *)
(*          pages of two, or two of three, one of them garbled; the second *)
(*          had one.  The lists are others when they are not filtered, or  *)
(*          when midnight has passed.  --date may name an older day.       *)
(*   msd    three orders of the tmall shop on pages of one; two come and   *)
(*          one leaves meanwhile, so that more than a page can come; two   *)
(*          orders at a time; without a limit of pages or with two         *)
(***************************************************************************)
EXTENDS OrderScraping, TLC

CONSTANTS a, b

ShopsDef == <<a, b>>

OrdersDef ==
  (<<a, 4>> :> <<14, 13, 12, 11, 10>>) @@ (<<b, 4>> :> <<20>>) @@
  (<<a, 5>> :> <<15>>) @@ (<<b, 5>> :> <<>>) @@
  (<<a, None>> :> <<15, 14, 13, 12, 11, 10>>) @@ (<<b, None>> :> <<20>>)

ListedDef == <<3, 2, 1>>
ComingDef == <<4, 5>>
=============================================================================
