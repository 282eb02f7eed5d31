------------------------------- MODULE MCRooms -------------------------------
(* A small instance of Rooms and Profile for TLC. *)
EXTENDS Rooms, TLC

\* An update names an email and a url for the photo.
EmailAndPhoto == [email : Email, data : {None}, photo : Photo]

\* Accounts, emails, urls, rooms and request slots are interchangeable.
Symmetry ==
    Permutations(User) \cup Permutations(Email) \cup Permutations(Photo)
        \cup Permutations(Room) \cup Permutations(Data) \cup Permutations(Req)
=============================================================================
