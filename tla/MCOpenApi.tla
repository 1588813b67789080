----------------------------- MODULE MCOpenApi ------------------------------
(***************************************************************************)
(* A service with two commands of its own and a filter, a server that goes *)
(* through good, empty, foreign and broken documents, and a document for   *)
(* every kind of security scheme to add a catalog from.                    *)
(***************************************************************************)
EXTENDS OpenApi, TLC

MCOp(id, method, path, slug) ==
    [id |-> id, idSlug |-> id, method |-> method, path |-> path, pathSlug |-> slug,
     tags |-> {}, globs |-> {"/*"}]
MCList == MCOp("list", "GET", <<Lit>>, "get-pets")
MCMake == [MCOp("make", "POST", <<Lit>>, "post-pets") EXCEPT !.tags = {"admin"}]
MCShow == MCOp("", "GET", <<Lit, Name("petId")>>, "get-pets-petid")
MCDrop == [MCOp("drop", "DELETE", <<Lit, Name("petId")>>, "delete-pets-petid")
              EXCEPT !.globs = {"/*", "/pets/*"}, !.idSlug = "list"]
MCOdd == [MCList EXCEPT !.id = "-", !.idSlug = ""]
MCSwap == MCOp("swap", "PUT", <<Lit>>, "put-pets")
MCLook == MCOp("get-pets-petid", "GET", <<Lit>>, "get-pets")

MCDoc == [kind |-> "v3", ops |-> <<MCList, MCMake, MCShow>>, schemes |-> <<>>, security |-> "",
          title |-> "pets"]
MCScheme(type, where, header) == [name |-> type, type |-> type, where |-> where,
                                header |-> header, tokenUrl |-> <<>>]
MCOAuth(tokenUrl) == [MCScheme("oauth2", "clientCredentials", "") EXCEPT !.tokenUrl = tokenUrl]

MCHistories ==
    {<<MCDoc, [MCDoc EXCEPT !.ops = <<MCList, MCDrop, MCSwap, MCShow, MCLook>>]>>,
     <<[MCDoc EXCEPT !.kind = "garbage"], MCDoc>>,
     <<[MCDoc EXCEPT !.kind = "swagger"], [MCDoc EXCEPT !.kind = "empty", !.ops = <<>>]>>}

MCSources ==
    <<MCDoc,
      [MCDoc EXCEPT !.schemes = <<MCScheme("apikey", "header", "")>>, !.title = ""],
      [MCDoc EXCEPT !.schemes = <<MCScheme("apikey", "query", "k"), MCScheme("http", "bearer", "")>>,
                    !.security = "http"],
      [MCDoc EXCEPT !.schemes = <<MCScheme("http", "basic", ""), MCScheme("oauth2", "implicit", "")>>],
      [MCDoc EXCEPT !.schemes = <<MCOAuth(<<>>)>>, !.security = "gone"],
      [MCDoc EXCEPT !.schemes = <<MCOAuth(<<Lit, Secret("client_id")>>)>>],
      [MCDoc EXCEPT !.schemes = <<MCOAuth(<<Lit, Secret("x")>>)>>],
      [MCDoc EXCEPT !.ops = <<[MCMake EXCEPT !.path = <<Lit, Secret("x")>>]>>],
      [MCDoc EXCEPT !.schemes = <<MCScheme("mutualtls", "", "")>>, !.ops = <<MCShow, MCDrop, MCMake>>],
      [MCDoc EXCEPT !.ops = <<MCList, MCDrop>>],
      [MCDoc EXCEPT !.ops = <<MCMake, MCOdd>>],
      [MCDoc EXCEPT !.ops = <<MCMake, [MCList EXCEPT !.path = <<>>]>>],
      [MCDoc EXCEPT !.kind = "swagger"],
      [MCDoc EXCEPT !.kind = "garbage"]>>

MCService ==
    [ManifestOf("pets", MCDoc) EXCEPT
        !.spec = "url", !.include = {"GET", "admin"}, !.exclude = {"admin", "DELETE"},
        !.commands = [list |-> [BlankCommand EXCEPT !.method = "HEAD", !.path = <<Lit>>],
                      ping |-> [BlankCommand EXCEPT !.method = "GET", !.path = <<Lit>>]]]

MCSymmetry == Permutations(Procs)
=============================================================================
