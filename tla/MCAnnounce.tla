------------------------------ MODULE MCAnnounce ------------------------------
(***************************************************************************)
(* Small instances of Announce: every reply of up to two entries, good and  *)
(* bad, whole, chunked or without the end of its headers, for one torrent;  *)
(* and one reply for torrents and links of many spellings, with hashes of   *)
(* three bytes, which end parameters, escapes and paths when unescaped.     *)
(***************************************************************************)
EXTENDS Announce

\* The printable characters in the order of their codes, from 32 to 126; a tab has
\* the place of the backquote.
Printable ==
  " !\"#$%&'()*+,-./0123456789:;<=>?@ABCDEFGHIJKLMNOPQRSTUVWXYZ[\\]^_\tabcdefghijklmnopqrstuvwxyz{|}~"

Codes(string) ==
  [i \in 1 .. Len(string) |->
     31 + CHOOSE k \in 1 .. Len(Printable) : SubSeq(Printable, k, k) = SubSeq(string, i, i)]

SomeId    == <<45, Amp, Percent, 0, 255>>
SomeHosts == {Codes("t")}

Compact(n)  == [key |-> "peers", string |-> TRUE, size |-> n]
PeersAsList == [key |-> "peers", string |-> FALSE, size |-> 12]
Interval    == [key |-> "interval", string |-> FALSE, size |-> 0]
Failure     == [key |-> "failure reason", string |-> TRUE, size |-> 6]

SomeReplies ==
  [status : {"200", "302"}, complete : BOOLEAN, chunked : BOOLEAN,
   body : {"dict", "list", "text"},
   entries : BoundedSeq({Compact(0), Compact(12), Compact(7), PeersAsList, Interval, Failure}, 2)]

Reply == [status |-> "200", complete |-> TRUE, chunked |-> FALSE, body |-> "dict",
          entries |-> <<Compact(12)>>]

\* Trackers with a path, without, with a query, with a port, without a scheme.
Trackers ==
  {"http://t/a", "http://t:6969/announce", "http://t/", "http://t", "http://t:80", "http://t/a?k=1",
   "http://t:0/a", "http://t:65536/a", "http://t:8x/a", "http://t:/a", "http://t:0000000080/a",
   "http://t:99999999999/a", "udp://t/a", ""}

FromTorrent(hash, tracker) ==
  [kind |-> "torrent", link |-> << >>, valid |-> TRUE, infoHash |-> hash,
   tracker |-> Codes(tracker), spelled |-> << >>, left |-> Codes("5")]

\* Bytes and their digits.
HashDigits == [a |-> "253431", b |-> "263D3f", c |-> "2f00fF"]
Bytes      == [a |-> Codes("%41"), b |-> Codes("&=?"), c |-> <<47, 0, 255>>]

Link(text, hash, tracker, how) ==
  [kind |-> "link", link |-> Codes("magnet:?" \o text), valid |-> TRUE, infoHash |-> hash,
   tracker |-> Codes(tracker), spelled |-> how, left |-> << >>]
BadLink(text) == [Link(text, << >>, "", << >>) EXCEPT !.valid = FALSE]

\* The tracker as a link spells it: as it is, or every reserved character escaped.
Written == [slash |-> "http%3A%2F%2Ft%2F", plain |-> "http://t/a", port |-> "http%3a%2f%2ft:6969%2fb",
             twice |-> "http://t/%2541"]
Meant   == [slash |-> "http://t/", plain |-> "http://t/a", port |-> "http://t:6969/b",
            twice |-> "http://t/%41"]
How     ==
  [slash |-> [i \in 1 .. 9 |-> IF i \in {5, 6, 7, 9} THEN "upper" ELSE "plain"],
   plain |-> [i \in 1 .. 10 |-> "plain"],
   port  |-> [i \in 1 .. 15 |-> IF i \in {5, 6, 7, 14} THEN "lower" ELSE "plain"],
   twice |-> [i \in 1 .. 12 |-> IF i = 10 THEN "upper" ELSE "plain"]]

GoodLinks ==
  UNION { LET xt == "xt=urn:btih:" \o HashDigits[h]
              tr == "tr=" \o Written[t]
          IN  { Link(text, Bytes[h], Meant[t], How[t]) :
                  text \in {xt \o "&" \o tr, tr \o "&" \o xt, xt \o "&dn=x=y&" \o tr \o "&x.pe",
                            "dn&" \o xt \o "&&" \o tr, "xt=urn:btih:000000&tr=a%&" \o tr \o "&" \o xt} }
        : h \in DOMAIN HashDigits, t \in DOMAIN Written }
  \cup { Link("xt=urn:btih:253431", Bytes["a"], "", << >>) }

BadLinks ==
  { BadLink("tr=http://t/a"), BadLink("xt=urn:btih:2534"), BadLink("xt=urn:btih:25343g"), BadLink("xt"),
    BadLink("xt=urn:btmh:253431"), BadLink("xt=urn:btih:253431&xt=urn:btmh:122025"), BadLink(""),
    BadLink("xt=urn:btih:253431&xt") }

SomeCalls ==
  [source : {FromTorrent(Bytes["a"], "http://t/a")}, reply : SomeReplies]
    \cup [source : {FromTorrent(Bytes[h], t) : h \in DOMAIN Bytes, t \in Trackers}
                     \cup GoodLinks \cup BadLinks,
          reply : {Reply}]

=============================================================================
