--------------------------- MODULE ContentChecks ---------------------------
(***************************************************************************)
(* The two detectors without state: DnsAnomalyDetector                     *)
(* (src/threat/dns_anomaly_detector.cpp) on the name of a DNS flow, and    *)
(* PayloadSignatureMatcher (src/threat/payload_signature_matcher.cpp) on   *)
(* what a packet carries.  Each gives the severity of its alert or "None". *)
(*                                                                         *)
(* A name is given by the measures that are compared: its length, its      *)
(* number of labels, the longest of them, and its Shannon entropy in       *)
(* hundredths of a bit (DnsAnomalyConfig's defaults are the limits here).  *)
(***************************************************************************)
EXTENDS Integers, Sequences, FiniteSetsExt

CONSTANT Signatures    \* sequence of [severity, target], as loaded

ASSUME SignaturesAssumption ==
  Signatures \in Seq([severity : {"Critical", "High", "Medium", "Low", "Info"},
                      target : {"AnyPayload", "Uri", "Host", "UserAgent"}])

DnsAnomaly(name) ==
  IF name.length = 0 THEN "None"
  ELSE IF name.length > 100 \/ name.longest > 45 THEN "Medium"
  ELSE IF name.length >= 12 /\ name.entropy >= 375 THEN "High"
  ELSE IF name.labels > 4 + 2 THEN "Low" ELSE "None"

(* text says of each part of a packet which signatures' patterns occur in  *)
(* it: the first max_inspect_payload_bytes of the payload, the URI of an   *)
(* HTTP flow and the flow's host name.  The user agent is never extracted, *)
(* so its signatures search the payload.                                   *)
Matches(text, i) ==
  LET target == Signatures[i].target IN
  \/ i \in text.payload /\ target # "Host"
  \/ i \in text.uri /\ target \in {"Uri", "AnyPayload"}
  \/ i \in text.host /\ target \in {"Host", "AnyPayload"}

SignatureMatch(text) ==
  LET matching == {i \in DOMAIN Signatures : Matches(text, i)} IN
  IF matching = {} THEN "None" ELSE Signatures[Min(matching)].severity
=============================================================================
