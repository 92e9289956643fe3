\* Two accounts, two contacts, INBOX and Sent; up to three messages on their way.
CONSTANTS
  Account = {a, b}
  Nobody = Nobody
  Inbox = inbox
  Sent = sent
  Folder = {inbox, sent}
  Contact = {c1, c2}
  NoContact = NoContact
  MaxInbox = 2
SPECIFICATION Spec
INVARIANTS
  TypeOK
  FiltersAreOwn
  ShownIsStored
  DialogShowsItsContact
