\* Two hosts, both builds: every flag combination, foreign options and lengths,
\* every change of one byte and every cut.
CONSTANTS
    Sent <- MCSent
    Damaged <- MCDamaged
    ForeignSent <- MCForeignSent
    Options <- MCOptions
SPECIFICATION Spec
INVARIANTS NoPanic Faithful AnswerComesHome DamageRejected
