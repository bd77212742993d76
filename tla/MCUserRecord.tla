---------------------------- MODULE MCUserRecord ----------------------------
(* An instance of SettingsPage: the user and one transaction of theirs,    *)
(* with a category, a foreign key that may be null, and a merchant.        *)
EXTENDS SettingsPage, TLC

CONSTANTS r1, r2, r3

Symmetry == Permutations(Requests)

MCFieldsOf ==
    [id \in Ids |-> IF id = User THEN {"password", "token", "currency", "timezone"}
                    ELSE {"category", "merchant"}]

MCColumnOf ==
    ("password" :> "hashedPassword") @@ ("token" :> "providerDetails")
      @@ ("currency" :> "settings") @@ ("timezone" :> "settings")
      @@ ("category" :> "categoryId") @@ ("merchant" :> "merchantName")

MCValuesOf ==
    ("password" :> Passwords) @@ ("token" :> {Null, Token})
      @@ ("currency" :> {"USD", "EUR"}) @@ ("timezone" :> {"UTC", "CET"})
      @@ ("category" :> {Null, "food"}) @@ ("merchant" :> {Null, "shop"})

MCDefaults == [s \in Settings |-> IF s = "currency" THEN "USD" ELSE "UTC"]

MCUpdatesOf ==
    [id \in Ids |->
       IF id = User THEN {"currency" :> "EUR", "timezone" :> "CET"}
       ELSE {"category" :> "food", "category" :> Null @@ "merchant" :> "shop"}]
=============================================================================
