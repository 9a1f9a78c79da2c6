---------------------------- MODULE RuleMatchers ----------------------------
(***************************************************************************)
(* IpMatcher, PortMatcher and DomainMatcher (src/rules/): what a criterion *)
(* of a rule matches, computed from its text the way the code computes it. *)
(*                                                                         *)
(* An address text is [kind, v, a, slash]: one of the wildcard words       *)
(* ("any"), an address of version v with the number behind its slash       *)
(* (NoSlash without one), or a text from_string or from_chars refuses      *)
(* ("bad").  A port text is the sequence of its comma-separated tokens,    *)
(* empty for a wildcard word.  A domain text is a sequence of characters.  *)
(* An address is a number of Width[v] bits, stored in bytes of ByteBits.   *)
(***************************************************************************)
EXTENDS Integers, Sequences

CONSTANTS
  Width,     \* Width[v]: the bits of an address of version v (32 and 128)
  ByteBits,  \* 8
  MaxPort    \* 65535

Pow2[n \in Nat] == IF n = 0 THEN 1 ELSE 2 * Pow2[n - 1]

-----------------------------------------------------------------------------
(* IpMatcher.                                                              *)

NoSlash == -1

(* An address of version 6 is a whole number of bytes.                     *)
ASSUME MatchersAssumption ==
  /\ Width[4] \in Nat /\ Width[6] \in Nat /\ MaxPort \in Nat
  /\ ByteBits \in Nat \ {0} /\ Width[6] % ByteBits = 0

IpText ==
  {t \in [kind : {"any", "cidr", "bad"}, v : {4, 6}, a : Nat, slash : Nat \cup {NoSlash}] :
     t.a < Pow2[Width[t.v]]}

AnyIp == [kind |-> "any", v |-> 4, a |-> 0, slash |-> NoSlash]

IpIsAny(t) == t.kind = "any"
IpIsValid(t) == t.kind = "any" \/ (t.kind = "cidr" /\ t.slash <= Width[t.v])

PrefixLen(t) == IF t.slash = NoSlash THEN Width[t.v] ELSE t.slash

(* x of width w with all but its first ones bits cleared.                  *)
And(x, ones, w) == x - (x % Pow2[w - ones])

ByteOf(a, i) == (a \div Pow2[Width[6] - ByteBits * (i + 1)]) % Pow2[ByteBits]

(* A bug: the bits of the partial byte are taken from its low end.         *)
MaskOnesLow(i, prefix) ==
  CASE i < prefix \div ByteBits -> ByteBits
    [] i = prefix \div ByteBits /\ prefix % ByteBits # 0 -> ByteBits - (prefix % ByteBits)
    [] OTHER -> 0

(* The leading ones of byte i of the mask.                                 *)
MaskOnes(i, prefix) ==
  CASE i < prefix \div ByteBits -> ByteBits
    [] i = prefix \div ByteBits -> prefix % ByteBits
    [] OTHER -> 0

MatchesV4(t, a) ==
  And(a, PrefixLen(t), Width[4]) = And(t.a, PrefixLen(t), Width[4])

MatchesV6(t, a) ==
  \A i \in 0..Width[6] \div ByteBits - 1 :
    LET ones == MaskOnes(i, PrefixLen(t)) IN
    And(ByteOf(a, i), ones, ByteBits) = And(ByteOf(t.a, i), ones, ByteBits)

IpMatches(t, ip) ==
  /\ IpIsValid(t)
  /\ IpIsAny(t) \/ /\ ip.v = t.v
                   /\ IF t.v = 4 THEN MatchesV4(t, ip.a) ELSE MatchesV6(t, ip.a)

(* What CIDR notation means: the addresses that share the prefix.          *)
InSubnet(t, ip) ==
  LET low == Pow2[Width[t.v] - PrefixLen(t)] IN
  ip.v = t.v /\ ip.a \div low = t.a \div low

-----------------------------------------------------------------------------
(* PortMatcher.  A token is [kind, lo, hi]: "empty" between two commas, a  *)
(* text that is no number ("bad"), a "port" (lo = hi) or a "range".        *)

PortText == Seq([kind : {"empty", "bad", "port", "range"}, lo : Nat, hi : Nat])

Port(p) == [kind |-> "port", lo |-> p, hi |-> p]

(* std::to_string(static_cast<uint16_t>(number)), the value out of range   *)
(* reduced as the conversion instruction of the build does it.             *)
PortOfNumber(n) == <<Port(n % (MaxPort + 1))>>

PortRefused(tok) ==
  \/ tok.kind = "bad"
  \/ tok.kind # "empty" /\ (tok.lo > MaxPort \/ tok.hi > MaxPort \/ tok.lo > tok.hi)

PortIsValid(e) == \A i \in DOMAIN e : ~ PortRefused(e[i])
PortIsAny(e) == e = <<Port(0)>> \/ \A i \in DOMAIN e : e[i].kind = "empty"

PortMatches(e, p) ==
  /\ PortIsValid(e)
  /\ \/ PortIsAny(e)
     \/ \E i \in DOMAIN e : e[i].kind # "empty" /\ p \in e[i].lo..e[i].hi

-----------------------------------------------------------------------------
(* DomainMatcher.                                                          *)

(* tolower, "A" standing for the letters it changes.                       *)
Lower(s) == [i \in DOMAIN s |-> IF s[i] = "A" THEN "a" ELSE s[i]]

DomainIsAny(d) == d \in {<< >>, <<"*">>, <<"A", "N", "Y">>, <<"a", "n", "y">>}

(* glob_match: greedy, with a single point of return behind the last star. *)
(* A cursor is where the loop stands in the text and in the pattern, the   *)
(* last star (0 without one) and where in the text it was met.             *)
Cursors(text, pattern) ==
  {c \in [t : 1..Len(text) + 1, p : 1..Len(pattern) + 1,
          star : 0..Len(pattern), m : 1..Len(text) + 1] :
     c.star < c.p /\ c.m <= c.t}

GlobMatch(text, pattern) ==
  LET T == Len(text) + 1
      P == Len(pattern) + 1
      run[c \in Cursors(text, pattern)] ==
        IF c.t = T THEN \A i \in c.p..P - 1 : pattern[i] = "*"
        ELSE IF c.p < P /\ pattern[c.p] \in {"?", text[c.t]}
             THEN run[[c EXCEPT !.t = @ + 1, !.p = @ + 1]]
        ELSE IF c.p < P /\ pattern[c.p] = "*"
             THEN run[[c EXCEPT !.p = @ + 1, !.star = c.p, !.m = c.t]]
        ELSE IF c.star # 0
             THEN run[[c EXCEPT !.t = c.m + 1, !.p = c.star + 1, !.m = @ + 1]]
        ELSE FALSE IN
  run[[t |-> 1, p |-> 1, star |-> 0, m |-> 1]]

IsSuffixWildcard(d) == Len(d) >= 2 /\ d[1] = "*" /\ d[2] = "."

EndsWith(s, end) ==
  Len(s) > Len(end) /\ SubSeq(s, Len(s) - Len(end) + 1, Len(s)) = end

DomainMatches(d, host) ==
  \/ DomainIsAny(d)
  \/ /\ host # << >>
     /\ LET p == Lower(d)
            h == Lower(host)
            suffix == SubSeq(p, 3, Len(p)) IN
        IF IsSuffixWildcard(p) THEN h = suffix \/ EndsWith(h, <<".">> \o suffix)
                               ELSE GlobMatch(h, p)

(* What a pattern means: the pattern's characters can be laid out along    *)
(* the text, each ? on one character and each * on any number of them.     *)
Glob(text, pattern) ==
  \E end \in [0..Len(pattern) -> 0..Len(text)] :
    /\ end[0] = 0 /\ end[Len(pattern)] = Len(text)
    /\ \A i \in 1..Len(pattern) :
         IF pattern[i] = "*" THEN end[i] >= end[i - 1]
         ELSE /\ end[i] = end[i - 1] + 1
              /\ pattern[i] \in {"?", text[end[i]]}

(* In *.domain the star stands for at least one character, or for nothing *)
(* together with its dot: the base domain is among the subdomains.         *)
DomainMeant(d, host) ==
  LET p == Lower(d)
      h == Lower(host) IN
  IF IsSuffixWildcard(p) THEN Glob(h, <<"?">> \o p) \/ h = SubSeq(p, 3, Len(p))
                         ELSE Glob(h, p)
=============================================================================
