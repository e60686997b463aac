------------------------------ MODULE AnnounceUrl ------------------------------
(***************************************************************************)
(* The request of an announce: tracker::build_announce_url, which appends  *)
(* the query to the URL of the tracker, and http::parse_url, which takes   *)
(* the result apart again.  The host ends at the first "/", so that a URL  *)
(* without a path keeps the query in its host or behind its port, where    *)
(* from_chars passes it over.                                              *)
(***************************************************************************)
EXTENDS UrlText

\* The names of the parameters, and the last of them, compact=1.
InfoHashKey   == <<105, 110, 102, 111, 95, 104, 97, 115, 104>>        \* info_hash
PeerIdKey     == <<112, 101, 101, 114, 95, 105, 100>>                 \* peer_id
PortKey       == <<112, 111, 114, 116>>                               \* port
UploadedKey   == <<117, 112, 108, 111, 97, 100, 101, 100>>            \* uploaded
DownloadedKey == <<100, 111, 119, 110, 108, 111, 97, 100, 101, 100>>  \* downloaded
LeftKey       == <<108, 101, 102, 116>>                               \* left
AsBytes       == <<99, 111, 109, 112, 97, 99, 116, Equals, 49>>

\* One parameter and those after it.
Parameter(key, value, others) == key \o <<Equals>> \o value \o <<Amp>> \o others

\* left is a number as std::format writes it, the port 6881.
Query(infoHash, peerId, left) ==
  Parameter(InfoHashKey, UrlEncode(infoHash),
  Parameter(PeerIdKey, UrlEncode(peerId),
  Parameter(PortKey, <<54, 56, 56, 49>>,
  Parameter(UploadedKey, <<48>>,
  Parameter(DownloadedKey, <<48>>,
  Parameter(LeftKey, left, AsBytes))))))

AnnounceUrl(tracker, infoHash, peerId, left) ==
  tracker \o <<Question>> \o Query(infoHash, peerId, left)

Http == <<104, 116, 116, 112, Colon, Slash, Slash>>   \* http://

\* Everything after the scheme, and the length of host and port in it.
Rest(url)    == Drop(url, Len(Http))
HostEnd(url) == IF Find(Rest(url), Slash) = 0 THEN Len(Rest(url)) ELSE Find(Rest(url), Slash) - 1

HostPort(url) == SubSeq(Rest(url), 1, HostEnd(url))
Path(url)     == IF Find(Rest(url), Slash) = 0 THEN <<Slash>> ELSE Drop(Rest(url), HostEnd(url))
Host(url)     ==
  IF Find(HostPort(url), Colon) = 0 THEN HostPort(url)
  ELSE SubSeq(HostPort(url), 1, Find(HostPort(url), Colon) - 1)

\* from_chars: the digits at the front, -1 when there is none.  All that is too
\* large for a port is the same.
TooLarge == 65536
FromChars(text) ==
  LET n == CHOOSE k \in 0 .. Len(text) :
             /\ \A i \in 1 .. k : text[i] \in Digits
             /\ k = Len(text) \/ text[k + 1] \notin Digits
      AtMost(v) == IF v > TooLarge THEN TooLarge ELSE v
      value[i \in 0 .. n] == IF i = 0 THEN 0 ELSE AtMost(10 * value[i - 1] + text[i] - 48)
  IN  IF n = 0 THEN -1 ELSE value[n]

Port(url) ==
  IF Find(HostPort(url), Colon) = 0 THEN 80 ELSE FromChars(Drop(HostPort(url), Find(HostPort(url), Colon)))

UrlIsRead(url) == StartsWith(url, Http) /\ Port(url) >= 1 /\ Port(url) < TooLarge

\* What http::get asks whom for.
Request(url) == [host |-> Host(url), port |-> Port(url), path |-> Path(url)]

=============================================================================
