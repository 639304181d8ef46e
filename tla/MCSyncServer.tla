---------------------------- MODULE MCSyncServer ----------------------------
(* Small instances of SyncServer for TLC. *)
EXTENDS SyncServer, TLC

CONSTANTS ana, beto, p1, c1, c2, m1, papa, o1, o2, o3, o4, o5, o6, o7, o8

\* Requests that overlap: two writes of a post by beto and one of the same id by
\* ana; ana's two devices open a conversation about the post and send a message; a
\* price by two juridicas, one of them not verified.
AllKind    == o4 :> "conversation" @@ o5 :> "conversation" @@ o6 :> "message"
           @@ o7 :> "precio" @@ [o \in Op |-> "post"]
AllId      == o4 :> c1 @@ o5 :> c2 @@ o6 :> m1 @@ [o \in Op |-> p1]
AllTarget  == o6 :> c1 @@ o7 :> papa @@ [o \in Op |-> p1]
AllTs      == o2 :> 2 @@ [o \in Op |-> 1]
AllSenders == o1 :> {beto} @@ o2 :> {beto} @@ o7 :> {ana, beto} @@ [o \in Op |-> {ana}]

\* Requests one after another: posts of one author, one with an invalid payload and
\* one with a date that does not parse; a profile, an alert; a price by two juridicas,
\* one of them not verified, with a tie.
EditKind    == o5 :> "profile" @@ o6 :> "precio" @@ o7 :> "precio" @@ o8 :> "alerta"
            @@ [o \in Op |-> "post"]
EditId      == [o \in Op |-> p1]
EditTarget  == o6 :> papa @@ o7 :> papa @@ o8 :> papa @@ [o \in Op |-> p1]
EditTs      == o1 :> 1 @@ o5 :> 1 @@ o8 :> 1 @@ [o \in Op |-> 2]
EditSenders == o6 :> {ana} @@ o7 :> {beto} @@ [o \in Op |-> {ana}]

\* Overlapping writes of one post by its author.
PostsKind    == [o \in Op |-> "post"]
PostsId      == [o \in Op |-> p1]
PostsTs      == o1 :> 1 @@ [o \in Op |-> 2]
PostsSenders == [o \in Op |-> {ana}]

\* ana opens a conversation about a post of beto's and sends a message in it, each
\* resent until it is answered.
RetryKind    == o1 :> "conversation" @@ o2 :> "message"
RetryId      == o1 :> c1 @@ o2 :> m1
RetryTarget  == o1 :> p1 @@ o2 :> c1
RetryTs      == [o \in Op |-> 1]
RetrySenders == [o \in Op |-> {ana}]

=============================================================================
