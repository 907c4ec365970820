-------------------------- MODULE MCProfileJourney --------------------------
(* Profiles, destinations and requests for ProfileJourney: one usable      *)
(* profile with one or two fields changed, and, for the unchanged one,     *)
(* tag lists of every kind.                                                *)
EXTENDS ProfileJourney, Integers

Plain == [tagIDs |-> <<1>>, strategy |-> "", typeID |-> None, mapping |-> None]
Other == [tagIDs |-> <<2, 1>>, strategy |-> "override", typeID |-> 7,
          mapping |-> [typeID |-> None, tagIDs |-> <<1, 1>>]]

To(block) == [target |-> "paperless", url |-> "absolute", token |-> "default",
              secret |-> TRUE, block |-> block]
Unknown   == [To(Plain) EXCEPT !.target = "paperles"]

Base == [name |-> "doc", source |-> "ADF Duplex", resolution |-> 300, mode |-> "Gray",
         format |-> "pdf", maxPages |-> 0, pageSize |-> "A4", timeout |-> 120,
         grouping |-> "", removeBlank |-> FALSE, ocr |-> FALSE, languages |-> <<>>,
         minConfidence |-> 0, destinations |-> <<To(Plain)>>]

(* Every way to change one field of one of the profiles.                   *)
Changed(profiles) ==
  UNION {{[p EXCEPT !.name = ""],
          [p EXCEPT !.source = "Flatbed"], [p EXCEPT !.source = "ADF"],
          [p EXCEPT !.mode = "Lineart"], [p EXCEPT !.mode = "Halftone"],
          [p EXCEPT !.maxPages = 1], [p EXCEPT !.maxPages = -1],
          [p EXCEPT !.pageSize = ""], [p EXCEPT !.timeout = 0],
          [p EXCEPT !.grouping = "per_page"], [p EXCEPT !.grouping = "per_sheet"],
          [p EXCEPT !.removeBlank = TRUE], [p EXCEPT !.ocr = TRUE]}
         \cup {[p EXCEPT !.resolution = v] : v \in {99, 100, 600, 601, 1200, 1201}}
         \cup {[p EXCEPT !.format = v] : v \in {"jpeg", "png", "tiff", "bmp"}}
         \cup {[p EXCEPT !.ocr = TRUE, !.languages = v] :
                 v \in {<<"auto">>, <<"deu">>, <<"fra">>, <<"auto", "deu">>, <<"">>}}
         \cup {[p EXCEPT !.ocr = TRUE, !.minConfidence = v] : v \in {-1, 1, 100, 101}}
       : p \in profiles}

Once  == Changed({Base})
Twice == Changed(Once)

Lists == {<<>>,
          <<Unknown>>, <<[Unknown EXCEPT !.target = ""]>>,
          <<To(Plain), To(Other)>>, <<Unknown, To(Other)>>,
          <<[To(Plain) EXCEPT !.secret = FALSE], To(Plain)>>,
          <<[To(Plain) EXCEPT !.url = "missing"], To(Other)>>,
          <<To(Other), [To(Plain) EXCEPT !.url = "relative"]>>,
          <<[To(Plain) EXCEPT !.token = "malformed"], [To(Plain) EXCEPT !.token = "named"]>>}

Tags(list, strategy) == [tagIDs |-> list, strategy |-> strategy]
Post(name, tags) == [body |-> "good", profile |-> name, tags |-> tags]

MCText == STRING
MCConfigured == {<<>>, <<1>>, <<2>>, <<1, 1>>, <<2, 1>>}
MCCaller     == BoundedSeq({1, 2, 3}, 2) \cup {<<3, 1, 3>>}

OneProfile(p) == [file |-> <<p>>, request |-> Post("doc", Tags(<<3>>, ""))]

MCScenarios ==
  {OneProfile(p) : p \in {Base} \cup Once \cup Twice}
  \cup {OneProfile([p EXCEPT !.destinations = l]) :
          p \in {Base, [Base EXCEPT !.grouping = "per_page"]}, l \in Lists}
  \cup {[file |-> <<[Base EXCEPT !.destinations = <<To(block)>>]>>, request |-> Post("doc", tags)] :
          block \in Config, tags \in Call}
  \cup {[file |-> f, request |-> Post(name, Tags(<<>>, ""))] :
          f \in {<<>>, <<Base, [Base EXCEPT !.mode = "Color"]>>,
                 <<Base, [Base EXCEPT !.name = "photo", !.format = "jpeg"]>>,
                 <<Base, [Base EXCEPT !.format = "bmp"]>>},
          name \in {"doc", "photo", "nothing"}}
  \cup {[file |-> <<Base>>, request |-> [Post("doc", Tags(<<>>, "")) EXCEPT !.body = body]] :
          body \in {"request_too_large", "invalid_body"}}
=============================================================================
