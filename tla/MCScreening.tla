------------------------------ MODULE MCScreening ------------------------------
(* A small instance of Screening for TLC.                                       *)
EXTENDS Screening, TLC

MCAlphabet == ("acme" :> 1) @@ ("brio" :> 2) @@ ("dorn" :> 3)
MCCountryOf == ("Hue" :> "vietnam") @@ ("Hanoi" :> "vietnam") @@ ("Boston" :> "usa")
MCHubs == ("dubai" :> "uae") @@ ("jebel ali" :> "uae") @@ ("busan" :> "busan")
MCWatch == {[hs |-> {"4412"}, origins |-> {"vietnam"}, destinations |-> {"usa"}, inputs |-> "china"]}
MCBaselines == (<<"vietnam", "usa">> :> 400)
MCBook == ("t2" :> [company |-> "brio", tx |-> 60]) @@ ("t3" :> [company |-> "dorn", tx |-> 1])
MCDefaults ==
  [vip_registry |-> ("acme" :> "t1"), blacklist_companies |-> {"dorn"},
   blacklist_tax_ids |-> {"t9"}, safe_routes |-> {<<"Hue", "Hanoi">>},
   low_value_threshold_usd |-> 100]

\* A shipment nothing speaks against: brio is in the book with 60 shipments.
Plain ==
  [company |-> "brio", tax |-> "t2", parties |-> {"brio"}, origin |-> "Hue",
   destination |-> "Boston", hs |-> "9403", described |-> TRUE, value |-> 9000,
   weight |-> 500, cost |-> 400, avg |-> Absent, shipper_country |-> "vietnam",
   receiver_country |-> "usa", transit |-> {}, route |-> {}, rerouted |-> FALSE,
   recent |-> FALSE]
Vip == [Plain EXCEPT !.company = "acme", !.tax = "t1", !.parties = {"acme"}]
Parcel == [Vip EXCEPT !.company = "cato", !.tax = "t5", !.destination = "Hanoi", !.value = 90,
                      !.weight = 2, !.cost = 3]
MCShipments ==
  {Plain, Vip, Parcel,
   [Vip EXCEPT !.hs = "8542"],                              \* a known name, controlled goods
   [Vip EXCEPT !.hs = "4412"],                              \* a known name, a watched lane
   [Plain EXCEPT !.hs = "4412"],                            \* a watched lane
   [Vip EXCEPT !.parties = {"acme", "zorn"}],               \* a designated receiver
   [Plain EXCEPT !.company = "dorn", !.tax = "t3"],         \* on the blacklist
   [Plain EXCEPT !.tax = "t1"],                             \* a VIP's number, another name
   [Plain EXCEPT !.transit = {"dubai", "jebel ali", "busan"}, !.cost = 150]}

Paper(type) ==
  [doc_type |-> type, read_in_part |-> FALSE, producer |-> {"mill"}, origin_country |-> {},
   input_origins |-> {}, supplier |-> FALSE, goods_origin |-> {}, supplier_country |-> {}]
Certificate == [Paper("certificate_of_origin") EXCEPT !.origin_country = {"vietnam"}]
Declaration == [Paper("producer_declaration") EXCEPT !.input_origins = {"laos"}]
Invoice == [Paper("input_purchase_invoices") EXCEPT !.supplier = TRUE, !.goods_origin = {"laos"}]
MCPapers ==
  {Certificate, Declaration, Invoice,
   [Declaration EXCEPT !.read_in_part = TRUE],
   [Invoice EXCEPT !.supplier = FALSE, !.supplier_country = {"china"}, !.goods_origin = {}],
   [Certificate EXCEPT !.origin_country = {"vietnam", "laos"}, !.producer = {"other"}]}

MCSaved == {[blacklist_companies |-> {}, vip_registry |-> ("acme" :> NoName)]}
MCPatches ==
  {[blacklist_companies |-> {"acme"}, vip_registry |-> ("brio" :> "t2")],
   [vip_registry |-> <<>>, safe_routes |-> Malformed]}

Zorn == [keys |-> {"zorn"}, topics |-> {"sanction"}]
Brio == [keys |-> {"brio", "t2"}, topics |-> {"sanction.linked"}]
Other == [keys |-> {"none"}, topics |-> {"debarment"}]
MCLists == {[up |-> TRUE, entities |-> {Zorn, Brio, Other}], [up |-> FALSE, entities |-> {}]}
MCBundles == {{}, {Other}}

MCScores == {Absent, 5, 72}
MCHs == {[verdict |-> "unknown", hs |-> NoName, sure |-> FALSE],
         [verdict |-> "consistent", hs |-> NoName, sure |-> TRUE],
         [verdict |-> "inconsistent", hs |-> "8542", sure |-> TRUE]}
MCNews == {[verdict |-> "no_risk_found", searched |-> FALSE, sure |-> TRUE],
           [verdict |-> "risk_found", searched |-> TRUE, sure |-> TRUE]}
MCDebates == {[disagrees |-> FALSE, score |-> 10], [disagrees |-> TRUE, score |-> 60]}
MCPasts == {[named |-> 0, blocked |-> 0, released |-> 5], [named |-> 2, blocked |-> 0, released |-> 9]}

\* After the verdict nothing reads the rules, the update requests or the single
\* findings any more, so states that differ in them alone count as one.
ScreeningSeen ==
  <<list, bundle, index, fresh, papers,
    IF Screened THEN [case EXCEPT !.validation.findings = {}, !.evaluation.findings = {}] ELSE case,
    IF Screened THEN <<>> ELSE <<stored, edit>>>>

===============================================================================
