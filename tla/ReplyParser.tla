----------------------------- MODULE ReplyParser ------------------------------
(***************************************************************************)
(* How the credential provider reads the service's answer to an unlock:    *)
(* the JSON reader of PipeClient.cpp, run over what json.dumps of          *)
(* service.py writes, one token of the text at a time, and the verdict of  *)
(* ParseUnlockReply.  The text may end anywhere.                           *)
(***************************************************************************)
EXTENDS Naturals, SequencesExt

CONSTANTS
  Alphabet,  \* the characters of a text
  Accounts,  \* user and domain names the service may hold
  Words,     \* passwords, and the texts of a gesture's prompt
  Refusals,  \* reasons it may refuse with
  MaxChars,  \* kMaxUsernameChars, kMaxDomainChars, kMaxPasswordChars
  MaxPrompt  \* kMaxPromptChars

VARIABLES
  sent,   \* the reply the service made
  json,   \* its JSON
  mark,   \* p: the token the reader looks at
  place,  \* where ParseObject is
  field,  \* key
  buf,    \* the string being decoded
  taken,  \* characters of the text that string has used up
  got,    \* the map of fields
  parsed  \* what ParseUnlockReply made of it

cursor == <<mark, place>>
decoding == <<buf, taken>>
replyVars == <<sent, json, cursor, field, decoding, got, parsed>>

-----------------------------------------------------------------------------
(* What the service writes                                                 *)

Quote == "\""
Backslash == "\\"
High == "D83D"
Low == "DE00"
Unpaired == "FFFD"

\* The characters of a text: a letter or a word, and those json.dumps escapes.
\* A code point outside the BMP is "astral"; a half of one may stand alone.
Escapes ==
  [quote |-> <<Backslash, Quote>>, backslash |-> <<Backslash, Backslash>>,
   newline |-> <<Backslash, "n">>, nul |-> <<Backslash, "u", "0000">>,
   accent |-> <<Backslash, "u", "00E9">>, high |-> <<Backslash, "u", High>>,
   low |-> <<Backslash, "u", Low>>,
   astral |-> <<Backslash, "u", High, Backslash, "u", Low>>]
Escaped(c) == IF c \in DOMAIN Escapes THEN Escapes[c] ELSE <<c>>

\* What stands for itself is neither a delimiter nor outside ASCII.
PlainText(c) == c \notin DOMAIN Escapes \cup {Quote, Backslash, Unpaired}

ASSUME ReplyAssumption ==
  /\ Accounts \cup Words \subseteq Seq(Alphabet)
  /\ \A c \in Alphabet : PlainText(c) \/ c \in DOMAIN Escapes
  /\ \A reason \in Refusals : PlainText(reason)
  /\ MaxChars \in Nat /\ MaxPrompt \in Nat

Quoted(s) ==
  <<Quote>> \o FlattenSeq([i \in DOMAIN s |-> Escaped(s[i])]) \o <<Quote>>

\* The replies of unlock and unlock_gesture, as lists of fields.
Fields(r) ==
  CASE r.kind = "grant" ->
         << <<"ok", <<"true">> >>, <<"username", Quoted(r.user)>>,
            <<"password", Quoted(r.word)>>, <<"domain", Quoted(r.domain)>> >>
    [] r.kind = "refusal" ->
         << <<"ok", <<"false">> >>, <<"reason", Quoted(<<r.reason>>)>>,
            <<"distance", <<"0.5">> >>, <<"real", <<"true">> >> >>
    [] r.kind = "gesture" ->
         << <<"ok", <<"false">> >>, <<"reason", Quoted(<<"needs-gesture">>)>>,
            <<"gesture", Quoted(<<"nod">>)>>, <<"token", Quoted(<<"f0">>)>>,
            <<"prompt", Quoted(r.word)>>, <<"ttl_s", <<"15">> >> >>

\* One line; the reader never looks at its end.
Dumps(fields) ==
  LET one(i) == (IF i = 1 THEN <<>> ELSE <<",", " ">>)
                  \o Quoted(<<fields[i][1]>>) \o <<":", " ">> \o fields[i][2]
  IN <<"{">> \o FlattenSeq([i \in DOMAIN fields |-> one(i)]) \o <<"}", "\n">>

Replies ==
  [kind : {"grant"}, user : Accounts, word : Words, domain : Accounts]
    \cup [kind : {"refusal"}, reason : Refusals]
    \cup [kind : {"gesture"}, word : Words]

-----------------------------------------------------------------------------
(* ParseObject and ParseString                                             *)

Here == json[mark]
InString == place \in {"in key", "in value"}
OutOfText == mark > Len(json)

Go(n, next) == mark' = mark + n /\ place' = next
KeepReply == UNCHANGED <<sent, json, parsed>>

\* UTF-8 bytes of a character, and of a text.
Bytes(c) == IF c = "astral" THEN 4 ELSE IF c = Unpaired THEN 3 ELSE IF c = "accent" THEN 2 ELSE 1
Size(s) == Len(FlattenSeq([i \in DOMAIN s |-> [b \in 1 .. Bytes(s[i]) |-> s[i]]]))

\* SkipWs.
Blank ==
  /\ ~OutOfText /\ Here = " "
  /\ place \in {"open", "first", "key", "colon", "value", "sep"}
  /\ Go(1, place)
  /\ UNCHANGED <<field, decoding, got>> /\ KeepReply

\* An opening brace, a colon, a comma, and the brace that ends the object.
Punctuation ==
  /\ ~OutOfText
  /\ \/ place = "open" /\ Here = "{" /\ Go(1, "first")
     \/ place = "colon" /\ Here = ":" /\ Go(1, "value")
     \/ place = "sep" /\ Here = "," /\ Go(1, "key")
     \/ place \in {"first", "sep"} /\ Here = "}" /\ Go(1, "object")
  /\ UNCHANGED <<field, decoding, got>> /\ KeepReply

BeginString ==
  /\ ~OutOfText /\ Here = Quote
  /\ \/ place \in {"first", "key"} /\ Go(1, "in key")
     \/ place = "value" /\ Go(1, "in value")
  /\ buf' = <<>> /\ taken' = 0
  /\ UNCHANGED <<field, got>> /\ KeepReply

\* c, from so many tokens, which are so many characters of the text.
Decodes(c, tokens, chars) ==
  /\ buf' = Append(buf, c) /\ taken' = taken + chars
  /\ Go(tokens, place)
  /\ UNCHANGED <<field, got>> /\ KeepReply

Plain == InString /\ ~OutOfText /\ Here \notin {Quote, Backslash} /\ Decodes(Here, 1, 1)

\* The token n places further on, if the text has one.
Peek(n) == IF mark + n <= Len(json) THEN json[mark + n] ELSE "end"

ShortEscape ==
  /\ InString /\ ~OutOfText /\ Here = Backslash
  /\ \/ Peek(1) = Quote /\ Decodes("quote", 2, 2)
     \/ Peek(1) = Backslash /\ Decodes("backslash", 2, 2)
     \/ Peek(1) = "n" /\ Decodes("newline", 2, 2)

\* Two escapes that make a surrogate pair are one code point; a high surrogate
\* without its low one is U+FFFD, and what follows it is read for itself.
UnicodeEscape ==
  /\ InString /\ ~OutOfText /\ Here = Backslash /\ Peek(1) = "u"
  /\ LET pair == Peek(2) = High /\ Peek(3) = Backslash /\ Peek(4) = "u" /\ Peek(5) = Low
     IN \/ pair /\ Decodes("astral", 6, 12)
        \/ ~pair /\ Peek(2) \in {High, Low} /\ Decodes(Unpaired, 3, 6)
        \/ Peek(2) = "0000" /\ Decodes("nul", 3, 6)
        \/ Peek(2) = "00E9" /\ Decodes("accent", 3, 6)

JsonValue(type, content) == [type |-> type, text |-> content]

\* The last value of a key wins.
Stores(value) ==
  got' = [k \in DOMAIN got \cup {field} |-> IF k = field THEN value ELSE got[k]]

EndString ==
  /\ InString /\ ~OutOfText /\ Here = Quote
  /\ IF place = "in key"
     THEN field' = buf[1] /\ Go(1, "colon") /\ UNCHANGED got
     ELSE Stores(JsonValue("string", buf)) /\ Go(1, "sep") /\ UNCHANGED field
  /\ buf' = <<>> /\ taken' = 0
  /\ KeepReply

\* true, false and numbers.
Literal ==
  /\ place = "value" /\ ~OutOfText /\ Here \notin {Quote, " "}
  /\ Stores(JsonValue(IF Here \in {"true", "false"} THEN "bool" ELSE "number", <<Here>>))
  /\ Go(1, "sep")
  /\ UNCHANGED <<field, decoding>> /\ KeepReply

-----------------------------------------------------------------------------
(* ParseUnlockReply                                                        *)

Nothing == [granted |-> FALSE, reason |-> "", user |-> <<>>, word |-> <<>>,
            domain |-> <<>>, gesture |-> <<>>, token |-> <<>>, prompt |-> <<>>]
Malformed == [Nothing EXCEPT !.reason = "malformed-response"]

\* Utf8ToWide: an astral code point takes two UTF-16 units.
Wide(s) == FlattenSeq([i \in DOMAIN s |->
             IF s[i] = "astral" THEN <<"high", "low">> ELSE <<s[i]>>])

\* SanitizePromptText: without controls, cut, and never in mid-pair.
Sanitized(w) ==
  LET kept == FlattenSeq([i \in DOMAIN w |->
                IF w[i] \in {"nul", "newline"} THEN <<>> ELSE <<w[i]>>])
      cut == IF Len(kept) > MaxPrompt THEN SubSeq(kept, 1, MaxPrompt) ELSE kept
  IN IF cut # <<>> /\ cut[Len(cut)] = "high" THEN SubSeq(cut, 1, Len(cut) - 1) ELSE cut

\* TakeString: a field that is absent, or no string, leaves the default.
StringOf(k) ==
  IF k \in DOMAIN got /\ got[k].type = "string" THEN got[k].text ELSE <<>>

BadField(w) == w = <<>> \/ Len(w) > MaxChars \/ \E i \in DOMAIN w : w[i] = "nul"

Granting == "ok" \in DOMAIN got /\ got["ok"] = JsonValue("bool", <<"true">>)

Interpreted ==
  LET gestured == [Nothing EXCEPT !.gesture = StringOf("gesture"),
                     !.token = StringOf("token"), !.prompt = Sanitized(Wide(StringOf("prompt")))]
      user == Wide(StringOf("username"))
      word == Wide(StringOf("password"))
      domain == IF StringOf("domain") = <<>> THEN <<".">> ELSE Wide(StringOf("domain"))
  IN IF ~Granting
     THEN [gestured EXCEPT !.reason =
             IF StringOf("reason") = <<>> THEN "no-match" ELSE StringOf("reason")[1]]
     ELSE IF BadField(user) \/ BadField(word) \/ BadField(domain)
     THEN [gestured EXCEPT !.reason = "malformed-response"]
     ELSE [gestured EXCEPT !.granted = TRUE, !.user = user, !.word = word, !.domain = domain]

Interpret ==
  /\ place = "object"
  /\ parsed' = Interpreted
  /\ Go(0, "done")
  /\ UNCHANGED <<sent, json, field, decoding, got>>

\* Mutant of RunsOut, for ReplyFaithful: what was read of an unfinished object
\* is used.
RunsOutAccepted ==
  /\ place \notin {"object", "done"}
  /\ parsed' = Interpreted
  /\ Go(0, "done")
  /\ UNCHANGED <<sent, json, field, decoding, got>>

\* The text ends where the reader stands.
RunsOut ==
  /\ place \notin {"object", "done"}
  /\ parsed' = Malformed
  /\ Go(0, "done")
  /\ UNCHANGED <<sent, json, field, decoding, got>>

-----------------------------------------------------------------------------

ReplyInit ==
  /\ sent \in Replies /\ json = Dumps(Fields(sent))
  /\ mark = 1 /\ place = "open" /\ field = "" /\ buf = <<>> /\ taken = 0
  /\ got = [k \in {} |-> ""] /\ parsed = Nothing

ReplyNext ==
  \/ Blank \/ Punctuation \/ BeginString \/ Plain \/ ShortEscape \/ UnicodeEscape
  \/ EndString \/ Literal \/ Interpret \/ RunsOut

ReplySpec == ReplyInit /\ [][ReplyNext]_replyVars

-----------------------------------------------------------------------------
(* Properties *)

\* Every variable has its type.
ReplyTypeOK ==
  /\ sent \in Replies /\ mark \in 1 .. Len(json) + 1 /\ taken \in Nat
  /\ place \in {"open", "first", "key", "in key", "colon", "value", "in value",
                "sep", "object", "done"}
  /\ parsed.granted \in BOOLEAN

\* A text as UTF-16 can carry it: halves of a code point that meet are one, and
\* a half on its own is U+FFFD.
AsUtf16(s) ==
  LET after(i) == i < Len(s) /\ s[i] = "high" /\ s[i + 1] = "low"
      unit(i) == IF after(i) THEN <<"astral">>
                 ELSE IF i > 1 /\ after(i - 1) THEN <<>>
                 ELSE IF s[i] \in {"high", "low"} THEN <<Unpaired>> ELSE <<s[i]>>
  IN Wide(FlattenSeq([i \in DOMAIN s |-> unit(i)]))

\* What the service meant.
Meant(r) ==
  CASE r.kind = "refusal" -> [Nothing EXCEPT !.reason = r.reason]
    [] r.kind = "gesture" ->
         [Nothing EXCEPT !.reason = "needs-gesture", !.gesture = <<"nod">>,
            !.token = <<"f0">>, !.prompt = Sanitized(AsUtf16(r.word))]
    [] r.kind = "grant" ->
         LET domain == IF r.domain = <<>> THEN <<".">> ELSE AsUtf16(r.domain)
             fits == \A w \in {AsUtf16(r.user), AsUtf16(r.word), domain} : ~BadField(w)
         IN IF ~fits THEN Malformed
            ELSE [Nothing EXCEPT !.granted = TRUE, !.user = AsUtf16(r.user),
                    !.word = AsUtf16(r.word), !.domain = domain]

\* The tile gets the very credential, refusal or gesture the service sent, and
\* nothing but a failure from a text that ends early; and no string takes more
\* bytes than the text it came from, so that the space reserved for a password
\* is never outgrown and copied ("Decoding never lengthens a string").
ReplyFaithful ==
  /\ place = "done" => parsed = IF mark = Len(json) THEN Meant(sent) ELSE Malformed
  /\ InString => Size(buf) <= taken
=============================================================================
