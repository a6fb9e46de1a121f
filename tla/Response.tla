------------------------------ MODULE Response ------------------------------
(***************************************************************************)
(* What serveAd writes for an ad (delivery/handler.go): the media URL      *)
(* storage/resolver.go gives the player, and the VAST document of          *)
(* vast/builder.go with a signed pixel for every event.                    *)
(*                                                                         *)
(* A URL is a record of what it is made from.  Serialisation is left out;  *)
(* so are the title, the order of the trackings and what is the same in    *)
(* every document.                                                         *)
(***************************************************************************)
EXTENDS Integers, Sequences

(* How the adserver is configured: S3_PUBLIC_BASE_URL, and an S3 client.   *)
Deployment == [publicBase : BOOLEAN, s3 : BOOLEAN]

(* The media columns of a row as the loader reads them: 0 for NULL.        *)
Mime  == {"video/mp4", "video/webm", "application/x-mpegURL", "application/dash+xml"}
Media == [source  : {"external_url", "internal_s3"},
          mime    : Mime,
          width   : Nat,
          height  : Nat,
          ms      : Int,
          landing : BOOLEAN]

-----------------------------------------------------------------------------
(* events.go, and the copy of its order in builder.go.  The definition     *)
(* named for a fault is not part of the specification.                     *)
QuartileEventsInOrder == <<"start", "firstQuartile", "midpoint", "thirdQuartile", "complete">>
TrackedEvents == {"impression", "click", "start", "firstQuartile", "midpoint",
                  "thirdQuartile", "complete"}

quartileEventOrderDrifted == <<"start", "firstQuartile", "midPoint", "thirdQuartile", "complete">>
quartileEventOrder == <<"start", "firstQuartile", "midpoint", "thirdQuartile", "complete">>

(***************************************************************************)
(* The document (vast/types.go).  A signature is what it covers; imp_id    *)
(* and exp are those of the response.                                      *)
(***************************************************************************)
Pixel == [ad : Nat, event : TrackedEvents, sig : Nat \X TrackedEvents]

MediaURL == [kind : {"as stored", "public", "presigned"}, ad : Nat]

Linear == [duration      : Seq(Nat),
           delivery      : {"streaming", "progressive"},
           type          : Mime,
           width         : Nat \ {0},
           height        : Nat \ {0},
           url           : MediaURL,
           trackings     : SUBSET [event : TrackedEvents, url : Pixel],
           clickThrough  : BOOLEAN,
           clickTracking : Pixel]

InLine == [ad : Nat, impression : Pixel, linear : Linear]

Sign(ad, event) == <<ad, event>>
signedTrackingURL(ad, event) == [ad |-> ad, event |-> event, sig |-> Sign(ad, event)]
Verify(url) == url.event \in TrackedEvents /\ url.sig = Sign(url.ad, url.event)

-----------------------------------------------------------------------------
Failed == [kind |-> "failed"]

(* S3Client.Presign, also of a nil client.                                 *)
Presign(dep, ad) ==
  {Failed} \cup (IF dep.s3 THEN {[kind |-> "presigned", ad |-> ad]} ELSE {})

(* The URLs, or the failure, the resolver may come to.                     *)
ResolveMediaURL(dep, ad, media) ==
  IF media.source = "external_url" THEN {[kind |-> "as stored", ad |-> ad]}
  ELSE IF dep.publicBase THEN {[kind |-> "public", ad |-> ad]}
  ELSE Presign(dep, ad)

(* HH:MM:SS, or nothing.                                                   *)
formatDuration(ms) ==
  LET secs == ms \div 1000
  IN  IF ms <= 0 THEN <<>> ELSE <<secs \div 3600, (secs \div 60) % 60, secs % 60>>

deliveryFor(mime) == IF mime \in {"application/x-mpegURL", "application/dash+xml"}
                       THEN "streaming" ELSE "progressive"

buildLinear(ad, media, url) ==
  LET quartileURLs == [ev \in {QuartileEventsInOrder[i] : i \in 1..5} |->
                         signedTrackingURL(ad, ev)]
      order == {quartileEventOrder[i] : i \in DOMAIN quartileEventOrder}
  IN  [duration      |-> IF formatDuration(media.ms) = <<>> THEN <<0, 0, 30>>
                                                            ELSE formatDuration(media.ms),
       delivery      |-> deliveryFor(media.mime),
       type          |-> media.mime,
       width         |-> IF media.width <= 0 THEN 1280 ELSE media.width,
       height        |-> IF media.height <= 0 THEN 720 ELSE media.height,
       url           |-> url,
       trackings     |-> {[event |-> ev, url |-> quartileURLs[ev]] :
                            ev \in order \cap DOMAIN quartileURLs},
       clickThrough  |-> media.landing,
       clickTracking |-> signedTrackingURL(ad, "click")]

BuildInline(ad, media, url) ==
  [ad |-> ad, impression |-> signedTrackingURL(ad, "impression"),
   linear |-> buildLinear(ad, media, url)]

Empty == [ad |-> -1]

(* The documents serveAd may write.                                        *)
serveAd(dep, ad, media) ==
  {IF url = Failed THEN Empty ELSE BuildInline(ad, media, url) :
     url \in ResolveMediaURL(dep, ad, media)}

-----------------------------------------------------------------------------
(* The event a player reports with each pixel of a document.               *)
Pixels(doc) ==
  {<<"impression", doc.impression>>, <<"click", doc.linear.clickTracking>>}
    \cup {<<t.event, t.url>> : t \in doc.linear.trackings}

=============================================================================
