------------------------------ MODULE MCRegistry ------------------------------
(* Instances of Registry for TLC. *)
EXTENDS Registry

CONSTANTS r1, r2, r3, party, link, tea, config, ann, dan, hours, early, late, mail, phone, slug,
          key, key2

Fresh(kind) == [kind |-> kind, fields |-> Blank]
Start ==
  [x \in Existing |->
     CASE x = party -> Fresh("party")
       [] x = link -> [Fresh("link") EXCEPT !.fields["id"] = ann]
       [] x = tea -> [Fresh("product") EXCEPT !.fields["name"] = early]
       [] x = config -> [Fresh("config") EXCEPT !.fields["id"] = hours, !.fields["name"] = early]]

Do(course) ==
  [course |-> course, on |-> Unset, row |-> Unset, given |-> Blank, valid |-> TRUE, key |-> NoKey]
Id(c, v) == [c EXCEPT !.given["id"] = v]
Name(c, v) == [c EXCEPT !.given["name"] = v]
Detail(c, v) == [c EXCEPT !.given["detail"] = v]
On(c, x) == [c EXCEPT !.on = x]
With(c, k) == [c EXCEPT !.key = k]
Bad(c) == [c EXCEPT !.valid = FALSE]

Set(k, v) == Name(Id(Do(SetConfig), k), v)
Profile == On(Id(Do(UpdateProfile), ann), ann)
ReadProfile == On(Id(Do(GetOrCreateProfile), ann), ann)
Tea == [Do(UpdateProduct) EXCEPT !.row = tea]
User(m, p) == [Id(Do(Register), m) EXCEPT !.given["alias"] = p]
Linking(x, v) == On(Id(Do(LinkParty), v), x)

Together(a, b, c) == [r \in Requests |-> CASE r = r1 -> a [] r = r2 -> b [] r = r3 -> c]

Days ==
  {\* a key set for the first time, and a set one set back to what it was
   Together(Set(mail, early), Set(mail, late), Set(mail, early)),
   Together(Set(hours, early), Set(hours, late), Set(hours, late)),
   \* a profile missing when it is read and updated, with a value that is refused
   Together(Name(Profile, early), Detail(Profile, late), ReadProfile),
   Together(Name(Profile, early), Name(Profile, late), Bad(Detail(Profile, late))),
   \* one column each, and two, of a product
   Together(Name(Tea, late), Detail(Tea, late), Detail(Name(Tea, early), early)),
   Together(Name(Tea, late), Bad(Tea), [Name(Tea, late) EXCEPT !.row = r1]),
   \* a product created twice under one key, and changed
   Together(With(Name(Do(CreateProduct), early), key), With(Name(Do(CreateProduct), early), key),
            [Name(Tea, late) EXCEPT !.row = r1]),
   Together(With(Do(CreateProduct), key), With(Do(CreateProduct), key), With(Do(CreateProduct), key2)),
   \* users with an email, a phone or a key in common
   Together(With(User(mail, phone), key), With(User(mail, phone), key), User(mail, Unset)),
   Together(With(User(mail, Unset), key), With(User(Unset, phone), key), User(dan, phone)),
   Together(User(mail, phone), On(Do(Login), mail), Bad(On(Do(Login), phone))),
   \* a party, its link and its profile; the link made twice
   Together(Do(CreateParty), Linking(r1, dan), On(Id(Do(UpdateProfile), dan), dan)),
   Together(Linking(party, dan), Linking(party, dan), On(Do(AddNote), dan)),
   Together(On(Do(AddNote), ann), Bad(On(Do(AddNote), ann)), Do(CreateService)),
   \* one slug for two businesses, and a new name
   Together(Id(Do(CreateBusiness), slug), Id(Do(CreateBusiness), slug),
            [Name(Do(UpdateBusiness), late) EXCEPT !.row = r1]),
   Together(Do(CreateBranch), On(Do(CreateLocation), r1), Do(CreateCategory))}
=============================================================================
