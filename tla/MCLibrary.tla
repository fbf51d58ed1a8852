------------------------------ MODULE MCLibrary ------------------------------
(***************************************************************************)
(* The JSON library, the wallet and the files of keys share no state, so   *)
(* one run checks them side by side: a behaviour is one of theirs.  The    *)
(* wallet stores the keys that NewcoinAddress makes, as the texts that it  *)
(* makes of them.                                                          *)
(***************************************************************************)
EXTENDS Json, Wallet, SiteFile

VARIABLE part         \* whose behaviour this is

LibraryInit ==
    /\ part \in {"json", "wallet", "site"}
    /\ JsonInit /\ WalletInit /\ SiteInit
    /\ part # "wallet" => initCount = 0

LibraryNext ==
    \/ part = "json" /\ JsonNext /\ UNCHANGED <<part, allVars, siteVars>>
    \/ part = "wallet" /\ WalletNext /\ UNCHANGED <<part, jsonVars, siteVars>>
    \/ part = "site" /\ SiteNext /\ UNCHANGED <<part, jsonVars, allVars>>

LibrarySpec == LibraryInit /\ [][LibraryNext]_<<part, jsonVars, allVars, siteVars>>

-------------------------------------------------------------------------------
(* The JSON library.                                                       *)

MCScalars ==
    {Null, Make("bool", TRUE), Make("int", minInt),
     Make("uint", maxInt), Make("uint", maxUInt), Make("real", -12346),
     Make("real", 123456), Make("real", 5), Make("real", -Infinity),
     Make("string", <<>>), Make("string", <<34, 92, 1>>)}

A == <<97>>

MCPaths ==
    {<<>>, <<<<"array", 0>>>>, <<<<"array", 2>>>>, <<<<"object", A>>>>,
     <<<<"array", 0>>, <<"object", A>>>>,
     <<<<"object", <<92>>>>>>}

MCNames == {A, <<92>>}

MCCommentTexts ==
    {<<LineComment, Junk, LineEnd>>, <<BlockComment(TRUE)>>}

MCLexemes ==
    {P("{"), P("}"), P("["), P("]"), P(","), P(":"), Lit("null"),
     Num(FALSE, <<1>>, NoPoint), Num(TRUE, <<>>, <<>>), Str(A), Str(<<92, 120>>), Junk, LineComment,
     BlockComment(FALSE), BlockComment(TRUE), LineEnd}

One == Num(FALSE, <<1>>, NoPoint)

MCSeeds ==
    {<<LineEnd>>,
     <<P("{"), Str(A), P(":"), P("["), One, P("]"), P(","), Str(A), P(":"), P("{")>>,
     <<P("{"), Str(A), P(":"), One>>,
     <<P("["), P("["), One>>}

-------------------------------------------------------------------------------
(* Files of keys.                                                          *)

S1 == [i \in 1..16 |-> (37 * i) % 256]

\* The first word is number 570.
S2 == [i \in 1..16 |-> IF i = 16 THEN 71 ELSE IF i = 15 THEN 64 ELSE 0]

MCSeedBytes == {S1, S2}

\* A domain, and a word.
MCPhrases == {<<3, Other, 9>>, <<Word(8, 3)>>}

\* Short keys: nothing in a file depends on their lengths.
MCListable ==
    {SetData(VER["nodePublic"], <<2, 9>>), SetData(VER["nodePrivate"], <<1>>),
     SetData(VER["accountID"], <<0, 5>>)}

MCSectionName == <<1, 2>>

MCOtherName == <<1>>

-------------------------------------------------------------------------------
(* The wallet.                                                             *)

\* Two key pairs and the parameters made for them; short keys again.
MCIdentity ==
    {[public |-> SetData(VER["nodePublic"], <<2, n>>), private |-> SetData(VER["nodePrivate"], <<n>>),
      dh |-> <<0, n>>] : n \in {0, 255}}

Columns == <<"PublicKey", "PrivateKey", "Dh512", "Dh1024">>

MCRowOf ==
    [k \in MCIdentity |->
        <<humanNodePublic(k.public), humanNodePrivate(k.private),
          Blob(escape(k.dh)), Blob(escape(k.dh))>>]

MCIdentityRow == {MCRowOf[k] : k \in MCIdentity}

MCOfRow ==
    [row \in MCIdentityRow |->
        [public |-> setNodePublic(getColumn(row, Columns, "PublicKey")).b58,
         private |-> setNodePrivate(getColumn(row, Columns, "PrivateKey")).b58,
         dh |-> getColumn(row, Columns, "Dh512")]]

MCText == {<<250>>, <<18>>}
===============================================================================
