------------------------------- MODULE MCDpi -------------------------------
(* ClientHellos, requests and queries built from the parts at which the    *)
(* parsers branch, whole, damaged, and cut off at every byte.              *)
EXTENDS Dpi

Zeros(n) == [i \in 1 .. n |-> 0]
Message(proto, port53, data) == [proto |-> proto, port53 |-> port53, data |-> data]

(* A length in two bytes in front of what it measures, off by d.           *)
Sized(s, d) == <<((Len(s) + d) \div 256) % 256, (Len(s) + d) % 256>> \o s

a == 97
b == 98
HostEntry == <<0>> \o Sized(<<a, b>>, 0)
Names == {HostEntry, <<1>> \o Sized(<<a>>, 0) \o HostEntry,
          <<0>> \o Sized(<< >>, 0) \o HostEntry, <<0>> \o Sized(<<a>>, 3), << >>}
ServerNames == {<<0, 0>> \o Sized(Sized(s, d), 0) : s \in Names, d \in {-1, 0, 1} }
               \cup {<<0, 0>> \o Sized(<<0>>, e) : e \in {0, 2}}
Other == <<0, 5>> \o Sized(<<7>>, 0)
ExtensionLists == {<< >>, Other} \cup ServerNames
                  \cup {Other \o s : s \in ServerNames}
                  \cup {HostFirst \o Other : HostFirst \in ServerNames}

Hello(sid, suites, exts, d) ==
  <<22, 3, 1, 0, 60, 1, 0, 0, 0, 3, 3>> \o Zeros(32) \o <<sid>> \o Zeros(sid)
  \o Sized(Zeros(suites), 0) \o <<1, 0>> \o Sized(exts, d)

TlsMessages ==
  {Hello(sid, suites, << >>, 0) : sid \in {0, 200}, suites \in {0, 2}}
  \cup {Hello(1, 2, exts, d) : exts \in ExtensionLists, d \in {0, 2}}
  \cup {[Hello(0, 2, Other, 0) EXCEPT ![x[1]] = x[2]] :
          x \in {<<1, 23>>, <<2, 2>>, <<3, 5>>, <<5, 0>>, <<6, 2>>, <<46, 1>>}}
  \cup {[Hello(40, 2, Other, 0) EXCEPT ![6] = 2]}

Request == <<METHOD, SP, 47, SP, VERSION>>
RequestLines ==
  {Request, Request \o <<CR>>, <<METHOD, SP, VERSION>>, <<METHOD, SP, SP, 49>>,
   <<METHOD, SP, 47, 47, 47, 47, 47, 47, 47, 47, SP, VERSION>>}
HeaderLines ==
  {<< >>, <<CR>>, <<CR, a>>, <<72, COLON, SP, a, b>>, <<104, COLON, b, COLON, 56, SP, CR>>,
   <<72, COLON, SP, CR>>, <<88, COLON, a>>, <<a, b>>, <<72, TAB, COLON, a>>}

HttpMessages ==
  {r \o <<LF>> \o h1 \o <<LF>> \o h2 \o <<LF>> \o h3 :
     r \in RequestLines, h1, h2, h3 \in HeaderLines}

Header(questions) == <<1, 1, 1, 0, 0, questions, 0, 0, 0, 0, 0, 0>>
DnsMessages ==
  {Header(1) \o s : s \in [1 .. 6 -> {0, 1, 192, 12, 14}]}
  \cup {Header(q) \o <<1, a, 1, b, 0, 0, 16, 0, 1>> : q \in {0, 1}}
  \cup {Header(1) \o <<n, a, 192, 18, 0, 16, 1, b, 0>> : n \in {1, 64, 130}}
  \cup {Header(1) \o <<192, 14, 192, 16, 192, 18, 1, a, 0, 0, 1, 0, 1>>}

MCMessages ==
  {Message("TCP", FALSE, s) : s \in TlsMessages \cup HttpMessages}
  \cup {Message("UDP", FALSE, s) : s \in DnsMessages}
  \cup {Message("TCP", TRUE, s) : s \in {Hello(1, 2, Other, 0), Header(1) \o <<1, a, 0>>}}
=============================================================================
