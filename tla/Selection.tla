----------------------------- MODULE Selection ------------------------------
(***************************************************************************)
(* Which ad answers a request, and with what: the bitset index a load      *)
(* builds (registry/loader.go, snapshot.go, bitset.go), what ServeVAST     *)
(* makes of the query, address and User-Agent (delivery/handler.go,        *)
(* targeting/*.go), the selection that intersects the index in a pooled    *)
(* scratch buffer (selection/select.go, rank.go, pool.go), called again    *)
(* with one more exclusion for every candidate Redis refuses, on the       *)
(* snapshot the request holds while others are stored, and the document    *)
(* of Response for the ad that is served.                                  *)
(*                                                                         *)
(* A word is the set of its bits that are on; ads are numbered from 0 as   *)
(* in the code.  Country and device strings are model values, normalising  *)
(* them is a function on those; a User-Agent is the set of device classes  *)
(* whose pattern it matches.  Pacing weights are multiples of 1/Scale, and *)
(* the random point is a multiple of 1/Grid of that.                       *)
(***************************************************************************)
EXTENDS Response, FiniteSets

CONSTANTS
  WordBits,     (* 64                                                    *)
  Int32Max,     (* 2^31 - 1                                              *)
  Tolerance,    (* MidRollOffsetTolerance                                *)
  Scale, Grid,  (* resolution of weights and of rand.Float64             *)
  Position,     (* "pre", "mid", "post"                                  *)
  Code,         (* every string a country or device may be written as    *)
  Classifiers,  (* the recognised devices, in the order they are tried   *)
  Geo,          (* [address -> country of the GeoIP record, or Blank]    *)
  Canonical,    (* [Code -> Code], TrimSpace and ToUpper / ToLower       *)
  Blank,        (* ""                                                    *)
  Wildcard,     (* WildcardKey                                           *)
  Null,         (* SQL NULL                                              *)
  Loads,        (* the results loadQuery may return, sequences of rows   *)
  Queries       (* the requests                                          *)

Device == {Classifiers[i] : i \in DOMAIN Classifiers}

(* What a campaign may target.  A row that names the wildcard itself, which *)
(* no writer of the repository stores, is left out; a request may name it. *)
Country == {c \in Code : Canonical[c] # Wildcard}

Int32 == (-Int32Max - 1)..Int32Max

Row == [pos       : Position,
        countries : {Null} \cup SUBSET Country,
        devices   : {Null} \cup SUBSET Code,
        offset    : Int32,
        priority  : Int32,
        budget    : Nat,
        hours     : {Null} \cup Int,     (* until end_date *)
        media     : Media]

(* Parameters as they arrive, the peer's address and its User-Agent.       *)
Query == [pos     : Position \cup {Blank},
          offset  : Int \cup {Blank},
          country : Code,
          device  : Code,
          address : DOMAIN Geo,
          agent   : SUBSET Device]

ASSUME SelectionAssumption ==
  /\ WordBits \in Nat \ {0} /\ Int32Max \in Nat /\ Tolerance \in Nat
  /\ Scale \in Nat \ {0} /\ Grid \in Nat \ {0}
  /\ Tolerance <= Int32Max
  /\ Canonical \in [Code -> Code] /\ Classifiers \in Seq(Code)
  /\ {"pre", "mid"} \subseteq Position
  /\ Blank \in Code \ (Device \cup Position)
  /\ Wildcard \notin Device \cup {Blank}
  /\ Geo \in [DOMAIN Geo -> Code]
  /\ Loads \subseteq Seq(Row)
  /\ Queries \subseteq Query

VARIABLES
  stored,     (* the snapshot the Refresher points to                    *)
  held,       (* the snapshot the current request read                   *)
  query,      (* the current request                                     *)
  excluded,   (* Exclude                                                 *)
  answer,     (* what Select returned last: an index, None or Panic      *)
  document,   (* what was written for it, Unwritten until then           *)
  scratch     (* the bits in the pooled buffer, up to its capacity       *)

vars == <<stored, held, query, excluded, answer, document, scratch>>

None == -1
Panic == -2
Unasked == -3
Unwritten == [ad |-> -2]

-----------------------------------------------------------------------------
(***************************************************************************)
(* Bitsets.  The definitions named for a fault are not part of the         *)
(* specification: they show that the properties notice it.                 *)
(***************************************************************************)
NewBitset(size) == [w \in 0..(size - 1) |-> {}]

(* b.Set(i) for every i of `is`.                                           *)
SetAll(b, is) ==
  [w \in DOMAIN b |-> b[w] \cup {i % WordBits : i \in {j \in is : j \div WordBits = w}}]

(* The indices ForEach visits, which it does in ascending order.           *)
ForEach(b) == UNION {{w * WordBits + i : i \in b[w]} : w \in DOMAIN b}

Ascending(is) == [n \in 1..Cardinality(is) |->
                    CHOOSE i \in is : Cardinality({j \in is : j < i}) = n - 1]

-----------------------------------------------------------------------------
(***************************************************************************)
(* buildSnapshot                                                           *)
(***************************************************************************)
normaliseCountries(in) == IF in = Null THEN {} ELSE {Canonical[c] : c \in in} \ {Blank}
normaliseDevices(in)   == IF in = Null THEN {} ELSE {Canonical[d] : d \in in} \cap Device

(* Scaled by Scale, a multiple of the hours that occur.                    *)
pacingWeight(row) ==
  LET budget == IF row.budget <= 0 THEN 1 ELSE row.budget
  IN  IF row.hours = Null THEN Scale * budget
      ELSE IF row.hours < 1 THEN Scale * budget
      ELSE (Scale * budget) \div row.hours

(* One dimension: targets[i] is the normalised list of ad i.               *)
Wild(targets) == {i \in DOMAIN targets : targets[i] = {}}
Keys(targets) == (UNION {targets[i] : i \in DOMAIN targets})
                   \cup (IF Wild(targets) = {} THEN {} ELSE {Wildcard})

BucketsUnfolded(targets, size) ==
  [k \in Keys(targets) |->
     SetAll(NewBitset(size),
            IF k = Wildcard THEN Wild(targets) ELSE {i \in DOMAIN targets : k \in targets[i]})]

(* Both passes: every wildcard ad is in every bucket.                      *)
Buckets(targets, size) ==
  [k \in Keys(targets) |->
     SetAll(NewBitset(size),
            Wild(targets) \cup {i \in DOMAIN targets : k \in targets[i]})]

buildSnapshot(rows) ==
  LET n == Len(rows)
      size == (n + WordBits - 1) \div WordBits
      ads == [i \in 0..(n - 1) |-> rows[i + 1]]
  IN  [ads        |-> ads,
       bitsetSize |-> size,
       byPosition |-> [p \in {ads[i].pos : i \in DOMAIN ads} |->
                         SetAll(NewBitset(size), {i \in DOMAIN ads : ads[i].pos = p})],
       byCountry  |-> Buckets([i \in DOMAIN ads |-> normaliseCountries(ads[i].countries)], size),
       byDevice   |-> Buckets([i \in DOMAIN ads |-> normaliseDevices(ads[i].devices)], size)]

Nil == <<>>

(* MatchingCountry and MatchingDevice.                                     *)
Matching(buckets, k) ==
  IF k # Blank /\ k \in DOMAIN buckets THEN buckets[k]
  ELSE IF Wildcard \in DOMAIN buckets THEN buckets[Wildcard] ELSE Nil

MatchingPosition(snap, pos) ==
  IF pos \in DOMAIN snap.byPosition THEN snap.byPosition[pos] ELSE Nil

-----------------------------------------------------------------------------
(***************************************************************************)
(* ServeVAST's selection.Request.  A number out of range does not parse.   *)
(***************************************************************************)
defaultStr(s, fallback) == IF s = Blank THEN fallback ELSE s
parseInt32(s) == IF s \in Int32 THEN s ELSE 0
NormaliseDevice(s) == IF s \in Device THEN s ELSE Blank

ClassifyUA(agent) ==
  IF agent = {} THEN Blank
  ELSE LET is == {i \in DOMAIN Classifiers : Classifiers[i] \in agent}
       IN  Classifiers[CHOOSE i \in is : \A j \in is : i <= j]

CountryISO(address) == Canonical[Geo[address]]

Derive(raw) ==
  [pos     |-> defaultStr(raw.pos, "pre"),
   offset  |-> parseInt32(raw.offset),
   country |-> IF raw.country # Blank THEN raw.country ELSE CountryISO(raw.address),
   device  |-> IF raw.device # Blank THEN NormaliseDevice(raw.device)
                                     ELSE ClassifyUA(raw.agent)]

-----------------------------------------------------------------------------
(***************************************************************************)
(* Select                                                                  *)
(***************************************************************************)
Wrap32(n) ==
  IF n > Int32Max THEN n - 2 * (Int32Max + 1)
  ELSE IF n < -Int32Max - 1 THEN n + 2 * (Int32Max + 1) ELSE n

InWindow(off, q) ==
  /\ off >= Wrap32(q.offset - Tolerance)
  /\ off <= Wrap32(q.offset + Tolerance)

resetKept(size) == IF Cardinality(DOMAIN scratch) < size THEN NewBitset(size) ELSE scratch

(* The buffer as reset leaves it: grown, or cut to size and zeroed.        *)
reset(size) == NewBitset(size)

(* None of the three lookups is nil.                                       *)
Indexed(snap, q) ==
  /\ DOMAIN snap.ads # {}
  /\ MatchingPosition(snap, q.pos) # Nil
  /\ Matching(snap.byCountry, q.country) # Nil
  /\ Matching(snap.byDevice, q.device) # Nil

(* The three-way AND, over the words of the snapshot.                      *)
Intersect(snap, q) ==
  LET view == reset(snap.bitsetSize)
      p == MatchingPosition(snap, q.pos)
      c == Matching(snap.byCountry, q.country)
      d == Matching(snap.byDevice, q.device)
  IN  [w \in DOMAIN view |->
         IF w < snap.bitsetSize THEN p[w] \cap c[w] \cap d[w] ELSE view[w]]

Candidates(snap, q, ex) ==
  {i \in ForEach(Intersect(snap, q)) \ ex :
     (q.pos = "mid" /\ i \in DOMAIN snap.ads) => InWindow(snap.ads[i].offset, q)}

topPriority(snap, is) ==
  {i \in is : \A j \in is : snap.ads[j].priority <= snap.ads[i].priority}

(* A weight that is not positive counts as one.                            *)
Weight(row) == IF pacingWeight(row) <= 0 THEN Scale ELSE pacingWeight(row)

(* The running total of the candidates' weights, in ascending order.       *)
cumWeight(snap, is) ==
  LET total[m \in 0..Cardinality(is)] ==
        IF m = 0 THEN 0 ELSE total[m - 1] + Weight(snap.ads[Ascending(is)[m]])
  IN  [n \in 1..Cardinality(is) |-> total[n]]

(* sort.SearchFloat64s finds the first entry not below pick; clamped.      *)
Reaching(cum, pick) == {n \in DOMAIN cum : n = Len(cum) \/ Grid * cum[n] >= pick}
SearchFirst(cum, pick) == 1
Search(cum, pick) == CHOOSE n \in Reaching(cum, pick) :
                       \A m \in Reaching(cum, pick) : n <= m

(* rand.Float64() * total, as a multiple of 1 / Grid.                      *)
Picks(cum) == 0..(Grid * cum[Len(cum)] - 1)

(* What is left to draw from; a bit beyond the ads is an index out of      *)
(* range.                                                                  *)
Found(snap, q, ex) == IF Indexed(snap, q) THEN Candidates(snap, q, ex) ELSE {}
Drawable(snap, cands) == cands # {} /\ cands \subseteq DOMAIN snap.ads

(* What Select returns if the draw falls on pick; an ad alone at the top   *)
(* is not drawn.                                                           *)
Answered(snap, q, ex, pick) ==
  LET cands == Found(snap, q, ex)
      top == topPriority(snap, cands)
  IN  IF cands = {} THEN None
      ELSE IF ~Drawable(snap, cands) THEN Panic
      ELSE IF Cardinality(top) = 1 THEN CHOOSE i \in top : TRUE
      ELSE Ascending(top)[Search(cumWeight(snap, top), pick)]

Points(snap, q, ex) ==
  LET cands == Found(snap, q, ex)
  IN  IF Drawable(snap, cands) THEN Picks(cumWeight(snap, topPriority(snap, cands))) ELSE {0}

(* What it may return.                                                     *)
Select(snap, q, ex) == {Answered(snap, q, ex, pick) : pick \in Points(snap, q, ex)}

(* What it leaves in the buffer: words beyond the view are not touched.    *)
Leave(snap, q) ==
  IF ~Indexed(snap, q) THEN scratch
  ELSE LET view == Intersect(snap, q)
       IN  [w \in DOMAIN scratch \cup DOMAIN view |->
              IF w \in DOMAIN view THEN view[w] ELSE scratch[w]]

-----------------------------------------------------------------------------
Init ==
  /\ \E load \in Loads : stored = buildSnapshot(load)
  /\ held = stored
  /\ query \in Queries
  /\ excluded = {} /\ answer = Unasked /\ document = Unwritten
  /\ scratch = NewBitset(0)

(* The Refresher stores another snapshot.                                  *)
Store(load) ==
  /\ stored' = buildSnapshot(load)
  /\ UNCHANGED <<held, query, excluded, answer, document, scratch>>

(* A request reads the pointer and selects.                                *)
Request(raw) ==
  /\ held' = stored /\ query' = raw
  /\ excluded' = {}
  /\ answer' \in Select(stored, Derive(raw), {})
  /\ scratch' = Leave(stored, Derive(raw))
  /\ document' = Unwritten
  /\ UNCHANGED stored

(* Its candidate was refused.                                              *)
Retry ==
  /\ answer \in DOMAIN held.ads /\ document = Unwritten
  /\ excluded' = excluded \cup {answer}
  /\ answer' \in Select(held, Derive(query), excluded')
  /\ scratch' = Leave(held, Derive(query))
  /\ UNCHANGED <<stored, held, query, document>>

(* Or it was let through, and the adserver, however it is configured,      *)
(* answers.                                                                *)
Serve(dep) ==
  /\ answer \in DOMAIN held.ads /\ document = Unwritten
  /\ document' \in serveAd(dep, answer, held.ads[answer].media)
  /\ UNCHANGED <<stored, held, query, excluded, answer, scratch>>

(* sync.Pool drops the buffer, or hands another out.                       *)
Collect ==
  /\ scratch' = NewBitset(0)
  /\ UNCHANGED <<stored, held, query, excluded, answer, document>>

Next ==
  \/ \E load \in Loads : Store(load)
  \/ \E raw \in Queries : Request(raw)
  \/ \E dep \in Deployment : Serve(dep)
  \/ Retry \/ Collect

Spec == Init /\ [][Next]_vars

-----------------------------------------------------------------------------
TypeOK ==
  /\ stored.bitsetSize * WordBits >= Cardinality(DOMAIN stored.ads)
  /\ held.bitsetSize * WordBits >= Cardinality(DOMAIN held.ads)
  /\ query \in Queries
  /\ excluded \subseteq DOMAIN held.ads
  /\ answer \in DOMAIN held.ads \cup {None, Unasked}
  /\ document \in InLine \cup {Unwritten, Empty}
  /\ \A w \in DOMAIN scratch : scratch[w] \subseteq 0..(WordBits - 1)

(***************************************************************************)
(* Who may see an ad, from its row and the request as it arrived.          *)
(***************************************************************************)
(* A list without a usable entry, or no list, admits everybody.            *)
Admits(list, value) == list = {} \/ value \in list

(* A set-top box that also calls itself Android is a set-top box.          *)
IsDevice(raw, d) ==
  IF raw.device # Blank THEN raw.device = d
  ELSE \E i \in DOMAIN Classifiers :
         /\ d = Classifiers[i] /\ d \in raw.agent
         /\ \A j \in 1..(i - 1) : Classifiers[j] \notin raw.agent

Eligible(row, raw) ==
  /\ row.pos = defaultStr(raw.pos, "pre")
  /\ Admits(normaliseCountries(row.countries),
            IF raw.country = Blank THEN CountryISO(raw.address) ELSE raw.country)
  /\ normaliseDevices(row.devices) = {}
       \/ \E d \in normaliseDevices(row.devices) : IsDevice(raw, d)
  /\ raw.pos = "mid" => row.offset - parseInt32(raw.offset) \in -Tolerance..Tolerance

(* The tolerance does not wrap around.                                     *)
Inside(raw) == /\ parseInt32(raw.offset) - Tolerance \in Int32
               /\ parseInt32(raw.offset) + Tolerance \in Int32

EligibleAds == {i \in DOMAIN held.ads \ excluded : Eligible(held.ads[i], query)}

(* The bitset index, over any number of words, with wildcard ads folded in *)
(* and a buffer left by another request on a larger snapshot, answers as   *)
(* the rows would: an eligible ad of the best priority, none only if there *)
(* is none.  Where the mid-roll window wraps around it may miss an ad, but *)
(* serves no other; a country written otherwise than the index does is one *)
(* that no ad names.                                                       *)
AnswersAsRows ==
  /\ (answer = None /\ Inside(query)) => EligibleAds = {}
  /\ answer \notin {None, Unasked} =>
       /\ answer \in EligibleAds
       /\ Inside(query) => \A i \in EligibleAds :
                             held.ads[i].priority <= held.ads[answer].priority

(* A request that finds several ads of the best priority is answered with  *)
(* each of them in proportion to its pacing weight: of the points the draw *)
(* may fall on, those that answer this request with the ad, through the    *)
(* index, the exclusions so far and the search, are as many as the weight  *)
(* its row has, give or take one.  No ad of the best priority is starved,  *)
(* and the draw is the only choice made: the query's offset is a mid-roll  *)
(* second, not the rotation the documents speak of.                        *)
FairShare ==
  answer \in DOMAIN held.ads /\ Inside(query) =>
    LET q == Derive(query)
        share(i) == Cardinality({pick \in Points(held, q, excluded) :
                                   Answered(held, q, excluded, pick) = i})
    IN  \A i \in topPriority(held, EligibleAds) :
          share(i) - Grid * Weight(held.ads[i]) \in -1..1

(* "Must stay in sync": a player that follows the document reports every   *)
(* event /track counts, each under one URL that /track accepts as this     *)
(* event of the ad selection chose, although three lists in two packages   *)
(* name the events.                                                        *)
ReportsEveryEvent ==
  document.ad \notin {Unwritten.ad, Empty.ad} =>
    /\ \A ev \in TrackedEvents : \E p \in Pixels(document) : p[1] = ev
    /\ \A p \in Pixels(document) :
         /\ p[2].event = p[1] /\ p[2].ad = answer /\ Verify(p[2])
         /\ \A o \in Pixels(document) : o[1] = p[1] => o = p

=============================================================================
