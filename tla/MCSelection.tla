---------------------------- MODULE MCSelection -----------------------------
(***************************************************************************)
(* Words of two bits, loads of up to five ads (three words), four-bit      *)
(* integers for int32.                                                     *)
(***************************************************************************)
EXTENDS Selection, TLC

CONSTANTS US, us, DE, mobile, Mobile, ctv, toaster, home, abroad

MCPosition == {"pre", "mid", "post"}
MCCode == {US, us, DE, Blank, Wildcard, mobile, Mobile, ctv, toaster}
MCClassifiers == <<ctv, mobile>>
MCGeo == home :> us @@ abroad :> Blank
MCCanonical == [c \in MCCode |-> CASE c = us -> US [] c = Mobile -> mobile [] OTHER -> c]

Hosted  == [source |-> "internal_s3", mime |-> "video/mp4", width |-> 0, height |-> 0,
            ms |-> 0, landing |-> FALSE]
Stream  == [source |-> "external_url", mime |-> "application/x-mpegURL", width |-> 640,
            height |-> 360, ms |-> 61500, landing |-> TRUE]

Plain == [pos |-> "pre", countries |-> Null, devices |-> Null, offset |-> 0,
        priority |-> 1, budget |-> 0, hours |-> Null, media |-> Hosted]
InUS     == [Plain EXCEPT !.countries = {us}, !.budget = 3]
InDE     == [Plain EXCEPT !.countries = {DE, Blank}, !.budget = 4, !.hours = 2]
OnMobile == [Plain EXCEPT !.devices = {Mobile, toaster}, !.budget = 2, !.hours = 0]
OnToaster == [Plain EXCEPT !.devices = {toaster}]
NoCountry == [Plain EXCEPT !.countries = {}, !.devices = {ctv}, !.budget = 3, !.hours = 2]
Better(row) == [row EXCEPT !.priority = 2]
Mid(row, n) == [row EXCEPT !.pos = "mid", !.offset = n, !.media = Stream]

(* In the order loadQuery gives: by priority, downwards.                   *)
MCLoads ==
  {<<>>, <<InUS>>, <<OnToaster>>,
   <<Better(InDE), Plain>>,
   <<Better(OnMobile), Better(InUS), Plain, InDE, OnMobile>>,
   <<InDE, InUS, Plain, NoCountry, OnMobile>>,
   <<InUS, Mid(Plain, 0), Mid(InUS, 7), InDE, Mid(InUS, 2)>>,
   <<Better(Mid(Plain, 7)), Mid(OnMobile, 6), Mid(InUS, -8)>>}

(* What is asked for, and what the address and the agent say instead.      *)
Bare == [pos |-> "pre", offset |-> Blank, country |-> Blank, device |-> Blank,
         address |-> abroad, agent |-> {}]

MCQueries ==
  {[Bare EXCEPT !.country = c, !.device = d] :
     c \in {US, us, DE, Wildcard}, d \in {mobile, toaster}}
  \cup {[Bare EXCEPT !.pos = Blank, !.address = home, !.agent = g] :
          g \in SUBSET {mobile, ctv}}
  \cup {[Bare EXCEPT !.pos = "mid", !.offset = n, !.country = US, !.device = mobile] :
          n \in {-8, Blank, 5, 7, 8}}
  \cup {Bare, [Bare EXCEPT !.pos = "mid", !.offset = 4], [Bare EXCEPT !.pos = "post"]}

=============================================================================
