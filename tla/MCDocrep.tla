------------------------------ MODULE MCDocrep ------------------------------
(* The tools and pipelines that TLC runs Docrep with.                      *)
EXTENDS Docrep

CONSTANTS v1, v2

Field(name, serial, mode, init) ==
  [name |-> name, serial |-> serial, mode |-> mode, init |-> init,
   to |-> NoStore, kind |-> "value"]
Pointer(name, mode, to, kind) ==
  [name |-> name, serial |-> name, mode |-> mode, init |-> Unset, to |-> to, kind |-> kind]
Klass(name, serial, fields) == [name |-> name, serial |-> serial, fields |-> fields]
Store(name, serial, klass) == [name |-> name, serial |-> serial, klass |-> klass]
Schema(doc, klasses, stores) == [doc |-> doc, klasses |-> klasses, stores |-> stores]
Tool(S) == [in |-> S, out |-> S]

(* Tokens with a string and a number, and a name of the document.          *)
Tokenise == Tool(Schema(<<Field("id", "id", "READ_WRITE", Unset)>>,
  <<Klass("Token", "Token", <<Field("text", "text", "READ_WRITE", Unset),
                              Field("len", "len", "READ_WRITE", v1)>>)>>,
  <<Store("toks", "toks", "Token")>>))

(* Sentences that point at tokens, and a new field of the tokens.          *)
Tag == Tool(Schema(<<>>,
  <<Klass("Sent", "Sent", <<Pointer("first", "READ_WRITE", "toks", "value")>>),
    Klass("Token", "Token", <<Field("text", "text", "READ_ONLY", Unset),
                              Field("pos", "pos", "READ_WRITE", Unset)>>)>>,
  <<Store("sents", "sents", "Sent"), Store("toks", "toks", "Token")>>))

(* Notes that point at sentences; what a sentence points at is not known.  *)
Link == Tool(Schema(<<Field("id", "id", "READ_ONLY", Unset)>>,
  <<Klass("Note", "Note", <<Pointer("on", "READ_WRITE", "sents", "value")>>),
    Klass("Sent", "Sent", <<>>)>>,
  <<Store("notes", "notes", "Note"), Store("sents", "sents", "Sent")>>))

(* Reads the tokens under one set of names and writes them under another.  *)
Rename ==
  LET Words(k, s, text, len) == Schema(<<>>,
        <<Klass("Word", k, <<Field("word", text, "READ_ONLY", Unset),
                             Field("flag", len, "READ_WRITE", v1)>>)>>,
        <<Store("words", s, "Word")>>)
  IN  [in |-> Words("Token", "toks", "text", "len"),
       out |-> Words("Word", "words", "word", "flag")]

(* Removes the numbers of the tokens and the name of the document.         *)
Clean == Tool(Schema(<<Field("id", "id", "DELETE", Unset)>>,
  <<Klass("Token", "Token", <<Field("len", "len", "DELETE", v1)>>)>>,
  <<Store("toks", "toks", "Token")>>))

Copy == Tool(Schema(<<>>, <<>>, <<>>))

(* Takes the text of a token for a slice.                                  *)
Clash == Tool(Schema(<<>>,
  <<Klass("Token", "Token",
          <<[Field("text", "text", "READ_WRITE", Unset) EXCEPT !.kind = "slice"]>>)>>,
  <<Store("toks", "toks", "Token")>>))

MCPipelines ==
  {<<Tokenise, Tag, Rename>>, <<Tokenise, Tag, Link>>, <<Tokenise, Tag, Clean>>,
   <<Tokenise, Clean, Tag>>, <<Tokenise, Rename, Tag>>, <<Tokenise, Rename, Copy>>,
   <<Tokenise, Link, Copy>>, <<Tokenise, Clash, Tag>>}

(* The pipelines are of those that the theorem WellFormed is about.        *)
ASSUME FreshNamesAssumption == FreshNames
=============================================================================
