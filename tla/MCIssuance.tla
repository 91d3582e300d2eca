----------------------------- MODULE MCIssuance -----------------------------
(* A small instance of Issuance for TLC. *)
EXTENDS Issuance

R(k, t, f, y, q, d) ==
    [kind |-> k, target |-> t, field |-> f, type |-> y, required |-> q, default |-> d]

\* Rules an author may write, right or wrong, of two fields.
Name == R("field_value", "k1", "a", "text", TRUE, None)
NameOr == R("field_value", "k1", "b", "text", FALSE, "plain")
Astray == R("field_value", "k2", "a", "text", TRUE, None)
Photo == R("image", "photo", "b", "image", TRUE, None)
PhotoAsText == R("image", "photo", "b", "text", TRUE, None)
TextAsPhoto == R("field_value", "k1", "b", "image", TRUE, None)
Message == R("nfc_payload", "photo", "a", "text", TRUE, "plain")
PhotoAsMessage == R("nfc_payload", "photo", "b", "image", FALSE, "reference")
Nowhere == R("json_pointer", "/dangling", "b", "text", FALSE, None)
Title == R("json_pointer", "/title", "a", "text", TRUE, None)
PhotoOr == R("json_pointer", "/photo", "b", "image", TRUE, "reference")

MCRuleLists ==
    {<<>>, <<Astray>>, <<PhotoAsText>>, <<TextAsPhoto>>, <<Title>>,
     <<Name, NameOr>>, <<NameOr, Name>>, <<Name, Photo>>, <<Message, PhotoAsText>>,
     <<Message, Photo, Name>>, <<Photo, Photo>>, <<Name, Astray, NameOr>>,
     <<NameOr, Photo>>, <<Nowhere, Name>>, <<PhotoAsMessage>>, <<Title, PhotoOr>>, <<Title, Photo>>}

MCCatalogues ==
    {[f \in {"a", "b"} |-> IF f = "a" THEN {"TEXT", "NFC"} ELSE {"STRING", "IMAGE"}],
     [f \in {"a"} |-> {"TELEPHONE"}]}

MCPersons ==
    {[a |-> x, b |-> y] : x \in {"plain", "long", None}, y \in {"reference", "null", None}}

OnePerson == {[a |-> "plain", b |-> "reference"]}

MCContents ==
    {[wallet |-> "apple", keys |-> ks, files |-> fs, slots |-> <<>>] :
        ks \in {{"k1"}, {"k1", "k2"}}, fs \in {{"icon"}, {"photo"}}}
    \cup
    {[wallet |-> "google", keys |-> {}, files |-> {}, slots |-> ss] :
        ss \in {<<[pointer |-> "/title", field |-> "a"],
                  [pointer |-> "/photo", field |-> "b"]>>,
                <<[pointer |-> "/photo", field |-> "b"],
                  [pointer |-> "/title", field |-> "b"]>>}}
=============================================================================
