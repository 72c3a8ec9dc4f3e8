--------------------------------- MODULE Uri ---------------------------------
(* URIs: parsed from the client's text, made from a path, and compared by the   *)
(* text that is kept of them, which is decoded.  A text is a sequence of        *)
(* characters; the scheme is one of them.  The parts for Windows are left out.  *)
EXTENDS Questions, Naturals, Sequences, SequencesExt

CONSTANTS Code,         \* the two hexadecimal digits of each character
          Unreserved,   \* the characters that URI::encode keeps
          FilePaths     \* of a client

Digits == {"0", "1", "2", "3", "4", "5", "6", "7", "8", "9", "A", "B", "C", "D", "E", "F"}
\* What begins an escape, a query or a fragment.
Reserved == {"%", "?", "#"}

ASSUME UriAssumption ==
    /\ Code \in [DOMAIN Code -> Digits \X Digits]
    /\ \A c, d \in DOMAIN Code : Code[c] = Code[d] => c = d
    /\ Reserved \cup {"/", ":"} \subseteq DOMAIN Code
    /\ "/" \in Unreserved /\ Unreserved \subseteq DOMAIN Code \ (Reserved \cup {":"})
    /\ FilePaths \subseteq Seq(DOMAIN Code) /\ \A path \in FilePaths : path # <<>> /\ path[1] = "/"

-----------------------------------------------------------------------------

\* The first place from i on that holds one of the stops, or the end.
UpTo(s, i, stops) == CHOOSE k \in i..(Len(s) + 1) : /\ k <= Len(s) => s[k] \in stops
                                                    /\ \A j \in i..(k - 1) : s[j] \notin stops
CharAt(s, k) == IF k <= Len(s) THEN s[k] ELSE ""

\* A bug: an escape at the very end is not seen.
Escaped_early(s, i) == i + 2 < Len(s) /\ s[i] = "%"

Escaped(s, i) == i + 2 <= Len(s) /\ s[i] = "%"

\* result[i] is what the first i characters give, of which an escape skips the next two.
decode(s) ==
    LET result[i \in 0..Len(s)] ==
            IF i = 0 THEN [text |-> <<>>, skip |-> 0]
            ELSE LET before == result[i - 1] IN
                 IF before.skip > 0 THEN [before EXCEPT !.skip = @ - 1]
                 ELSE IF Escaped(s, i)
                 THEN [text |-> Append(before.text, CHOOSE c \in DOMAIN Code : Code[c] = <<s[i + 1], s[i + 2]>>),
                       skip |-> 2]
                 ELSE [text |-> Append(before.text, s[i]), skip |-> 0]
    IN result[Len(s)].text

\* A text with some of its characters escaped.
Escape(s, escaped) ==
    LET result[i \in 0..Len(s)] ==
            IF i = 0 THEN <<>>
            ELSE result[i - 1] \o (IF s[i] \in escaped THEN <<"%", Code[s[i]][1], Code[s[i]][2]>> ELSE <<s[i]>>)
    IN result[Len(s)]
encode(s) == Escape(s, DOMAIN Code \ Unreserved)

\* A path always starts with a slash.
init(scheme, authority, path, query, fragment) ==
    LET rooted == IF path # <<>> /\ path[1] = "/" THEN path ELSE <<"/">> \o path
        prefixed(mark, part) == IF part = <<>> THEN <<>> ELSE <<mark>> \o part
    IN [str |-> (IF scheme = <<>> THEN <<>> ELSE Append(scheme, ":"))
                \o (IF authority # <<>> \/ scheme = <<"file">> THEN <<"/", "/">> ELSE <<>>) \o authority
                \o rooted \o prefixed("?", query) \o prefixed("#", fragment),
        path |-> rooted]

\* The components of a text, by the pattern of RFC 3986.
URI(s) ==
    LET colon == UpTo(s, 1, {":", "/", "?", "#"})
        hasScheme == colon > 1 /\ CharAt(s, colon) = ":"
        i == IF hasScheme THEN colon + 1 ELSE 1
        hasAuthority == CharAt(s, i) = "/" /\ CharAt(s, i + 1) = "/"
        path == IF hasAuthority THEN UpTo(s, i + 2, {"/", "?", "#"}) ELSE i
        query == UpTo(s, path, {"?", "#"})
        fragment == IF CharAt(s, query) = "?" THEN UpTo(s, query + 1, {"#"}) ELSE query
    IN init(IF hasScheme THEN SubSeq(s, 1, colon - 1) ELSE <<>>,
            IF hasAuthority THEN decode(SubSeq(s, i + 2, path - 1)) ELSE <<>>,
            decode(SubSeq(s, path, query - 1)),
            decode(SubSeq(s, query + 1, fragment - 1)),
            decode(SubSeq(s, fragment + 1, Len(s))))

fromFile(path) == init(<<"file">>, <<>>, path, <<>>, <<>>)
getPath(uri) == uri.path
Same(u, v) == u.str = v.str

-----------------------------------------------------------------------------
(* A client names a file, whose name may have characters that URIs reserve.     *)

\* It escapes those that it has to, and any others.
AskUri ==
    /\ question = None
    /\ \E path \in FilePaths, escaped \in SUBSET (DOMAIN Code \ {"/"}) :
         /\ Reserved \subseteq escaped
         /\ question' = [about |-> "uri", path |-> path, escaped |-> escaped]
UriSpec == question = None /\ [][AskUri]_question

\* A document has one identity: the text that a client sends for a file, whether it escapes
\* every character it may, only those it has to or any in between, is the URI that the server
\* makes from the path, and has that path.  What the server sends means the same file as long
\* as its name has none of the characters that begin an escape, a query or a fragment
\* (URI::URI, URI::fromFile, URI::decode).
UriNamesFile ==
    question # None /\ question.about = "uri" =>
        LET path == question.path
            file == fromFile(path)
        IN /\ \A sent \in {Escape(path, question.escaped), encode(path)} :
                LET received == URI(<<"file", ":", "/", "/">> \o sent) IN
                Same(received, file) /\ getPath(received) = path
           /\ ToSet(path) \cap Reserved = {} => Same(URI(file.str), file)
=============================================================================
